---------------------------- MODULE Spec2Model ----------------------------
(***************************************************************************)
(* Model of the Section / Options URL tree of urls/section.py and of the   *)
(* view Dispatcher used by it.                                             *)
(*                                                                         *)
(* Python values are modelled as follows: None is the string None, a       *)
(* reference to an object is its index in the heap that holds the objects  *)
(* of its class (0 is the None reference), a list is a sequence.           *)
(***************************************************************************)
EXTENDS Integers, Sequences, FiniteSets, TLC

VARIABLES
    sections,   \* heap of Section objects, in order of construction
    opts,       \* heap of Options objects
    vals,       \* heap of Values objects
    ectx,       \* heap of the mappings given as extraContext
    nbase,      \* number of base() calls made so far
    cloned,     \* for each Options object, the clone() call that made it
    views,      \* the views dictionary of the Dispatcher
    modules,    \* the attributes of the modules that can be imported
    firstGot,   \* for each location, the view get_view returned first
    menus,      \* the Menu objects, each with its getGlobal() generator
    ret         \* what the last call returned (or raised)

vars == <<sections, opts, vals, ectx, nbase, cloned, views, modules,
          firstGot, menus, ret>>

\* The state of the Dispatcher and of the modules
dispatchVars == <<views, modules, firstGot>>

\* The state of a tree of sections
treeVars == <<sections, nbase>>

---------------------------------------------------------------------------
(* Bounds of the model *)

MaxNodes == 3       \* Section objects ever constructed (the root included)
MaxPath == 2        \* length of a request path
MaxBase == 1        \* base() calls on one tree
MaxOptions == 2     \* Options objects made when clone() is called directly
MaxSegments == 3    \* segments of a pattern given to Options.urlPattern

---------------------------------------------------------------------------
(* Python values *)

None == "None"

NoRef == 0

\* Truth value of a string or None
TruthyStr(s) == s # None /\ s # ""

\* A value that is either a bool or a list, with its Python type
PyBool(b) == [t |-> "bool", b |-> b, l |-> <<>>]
PyList(l) == [t |-> "list", b |-> FALSE, l |-> l]

Truthy(v) == IF v.t = "bool" THEN v.b ELSE v.l # <<>>

NoRet == [op |-> "none"]

\* A str is the sequence of its characters; any other object has an identity
Str(chars) == [t |-> "str", s |-> chars, id |-> 0]
Obj(id) == [t |-> "obj", s |-> <<>>, id |-> id]

\* None, and a plain function (types.FunctionType), as values of the fields
\* that hold a str or an object
NoneObj == [t |-> "none", s |-> <<>>, id |-> 0]
Function(id) == [t |-> "function", s |-> <<>>, id |-> id]

\* A value that is called first when it is callable: value is what the call
\* returns, or the value itself
Plain(v) == [callable |-> FALSE, value |-> v]
Callable(v) == [callable |-> TRUE, value |-> v]

\* str(v) of a str or of None
StrOf(v) == IF v.t = "none" THEN <<"N", "o", "n", "e">> ELSE v.s

RECURSIVE Split(_, _)
\* s.split(sep), sep being one character
Split(s, sep) ==
    IF \A k \in DOMAIN s : s[k] # sep
    THEN <<s>>
    ELSE LET k == CHOOSE k \in DOMAIN s :
                      s[k] = sep /\ \A j \in 1..(k - 1) : s[j] # sep
         IN  <<SubSeq(s, 1, k - 1)>> \o Split(SubSeq(s, k + 1, Len(s)), sep)

RECURSIVE Join(_, _)
\* sep.join(parts)
Join(parts, sep) ==
    IF parts = <<>> THEN <<>>
    ELSE IF Len(parts) = 1 THEN parts[1]
    ELSE parts[1] \o <<sep>> \o Join(Tail(parts), sep)

---------------------------------------------------------------------------
(* Options *)

\* The keyword parameters of Options.__init__, which __init__ keeps as self.args
OptionArgs ==
    {"active", "exists", "display", "showBase", "alias", "match", "values",
     "kls", "module", "target", "redirect", "condition", "extraContext"}

\* The defaults of Options.__init__
OptionDefaults ==
    [active |-> TRUE, exists |-> TRUE, display |-> TRUE, showBase |-> TRUE,
     alias |-> None, match |-> None, values |-> NoRef,
     kls |-> Str(<<"V", "i", "e", "w", "s">>), module |-> NoneObj,
     target |-> Str(<<"b", "a", "s", "e">>),
     redirect |-> Plain(NoneObj),
     condition |-> [callable |-> FALSE, value |-> FALSE],
     extraContext |-> NoRef]

\* Options(**settings): every parameter given is stored, the others default
Options(settings) ==
    [f \in OptionArgs |->
        IF f \in DOMAIN settings THEN settings[f] ELSE OptionDefaults[f]]

\* Options.clone as a mutant: the copy starts from the defaults instead of
\* the current values of the source
cloneFromDefaults(o, kwargs) == Options(kwargs)

\* Options.clone as a mutant: the overrides are dropped
cloneNoOverride(o, kwargs) == Options(o)

\* Options.clone: settings = the current value of every field of self.args,
\* updated with kwargs, given to Options()
clone(o, kwargs) ==
    LET settings == [f \in OptionArgs |->
                        IF f \in DOMAIN kwargs THEN kwargs[f] ELSE o[f]]
    IN  Options(settings)

\* Options.update as a mutant: the fields are set on every Options object
updateAll(h, i, kwargs) ==
    [j \in DOMAIN h |->
        [f \in DOMAIN h[j] |-> IF f \in DOMAIN kwargs THEN kwargs[f] ELSE h[j][f]]]

\* Options.update on the object i of the heap h: setattr for every keyword
update(h, i, kwargs) ==
    [h EXCEPT ![i] =
        [f \in DOMAIN h[i] |-> IF f \in DOMAIN kwargs THEN kwargs[f] ELSE h[i][f]]]

\* Options.show: the condition is called first when it is callable; a truthy
\* condition hides the section
OptionsShow(o) ==
    LET condition == o.condition.value
    IN  IF condition THEN FALSE ELSE TRUE

\* The attributes of the objects that have some: the module Obj(4) has the
\* attribute V, whose attribute base is a method
ObjectAttrs ==
    (Obj(4) :> (<<"V">> :> Obj(5))) @@ (Obj(5) :> (<<"b", "a", "s", "e">> :> Obj(6)))

RECURSIVE GetAttrs(_, _)
\* obj = getattr(obj, next) for every next of names
GetAttrs(obj, names) ==
    IF names = <<>> THEN [err |-> None, val |-> obj]
    ELSE IF obj \notin DOMAIN ObjectAttrs
            \/ names[1] \notin DOMAIN ObjectAttrs[obj]
    THEN [err |-> "AttributeError", val |-> NoneObj]
    ELSE GetAttrs(ObjectAttrs[obj][names[1]], Tail(names))

\* Options.getObj: kls when it is an object; else kls without one '.' at its
\* beginning and one at its end when module is None (None when that is
\* empty), '%s.%s' % (self.module, self.kls) when module is a str, and the
\* attribute of the module object that the dotted kls names otherwise
getObj(o) ==
    IF o.kls.t # "none" /\ o.kls.t # "str"
    THEN [err |-> None, val |-> o.kls]
    ELSE
        LET kls0 == IF o.kls.t = "none" THEN <<>> ELSE o.kls.s
            kls1 == IF kls0 # <<>> /\ kls0[1] = "." THEN Tail(kls0) ELSE kls0
            kls == IF kls1 # <<>> /\ kls1[Len(kls1)] = "."
                   THEN SubSeq(kls1, 1, Len(kls1) - 1)
                   ELSE kls1
        IN  IF o.module.t = "none"
            THEN IF kls = <<>>
                 THEN [err |-> None, val |-> NoneObj]
                 ELSE [err |-> None, val |-> Str(kls)]
            ELSE IF o.module.t = "str"
            THEN [err |-> None,
                  val |-> Str(o.module.s \o <<".">> \o StrOf(o.kls))]
            ELSE GetAttrs(o.module, Split(kls, "."))

RECURSIVE MultiSlashSubPairs(_)
\* regexes['multiSlash'].sub as a mutant: every '//' becomes '/', from left
\* to right, once
MultiSlashSubPairs(s) ==
    IF Len(s) < 2 THEN s
    ELSE IF s[1] = "/" /\ s[2] = "/"
    THEN <<"/">> \o MultiSlashSubPairs(Tail(Tail(s)))
    ELSE <<s[1]>> \o MultiSlashSubPairs(Tail(s))

RECURSIVE MultiSlashSub(_)
\* regexes['multiSlash'].sub('/', pattern): every run of '/' becomes one '/'
MultiSlashSub(s) ==
    IF Len(s) < 2 THEN s
    ELSE IF s[1] = "/" /\ s[2] = "/" THEN MultiSlashSub(Tail(s))
    ELSE <<s[1]>> \o MultiSlashSub(Tail(s))

\* Options.urlPattern, the regex of the pattern: the segments of a list
\* joined with '/', every run of '/' made one, then '^%s$' when that ends
\* with '/' and '^%s/?$' when it does not
UrlRegex(pattern) ==
    LET joined == IF pattern.t = "list" THEN Join(pattern.l, "/")
                  ELSE pattern.s
        subbed == MultiSlashSub(joined)
    IN  IF subbed # <<>> /\ subbed[Len(subbed)] = "/"
        THEN <<"^">> \o subbed \o <<"$">>
        ELSE <<"^">> \o subbed \o <<"/", "?", "$">>

\* The views of the url patterns that are not the target itself
redirect_to == Function(1)
dispatch == Function(2)

\* A dictionary of keyword arguments, or None
Kwargs(d) == [none |-> FALSE, d |-> d]
NoKwargs == [none |-> TRUE, d |-> <<>>]

\* A mapping given as extraContext, as keyword arguments
ContextKwargs(mapping) ==
    [k \in {kv[1] : kv \in mapping} |->
        Str(<<(CHOOSE kv \in mapping : kv[1] = k)[2]>>)]

\* Options.urlPattern as a mutant: the target that is a function is looked
\* at before the redirect
urlPatternTargetFirst(os, ctx, i, pattern, section, name) ==
    LET self == os[i]
    IN  IF ~(self.active /\ self.exists)
        THEN [err |-> None, out |-> <<>>]
        ELSE
            LET regex == UrlRegex(pattern)
                redirect == self.redirect.value
            IN  IF self.target.t = "function"
                THEN [err |-> None,
                      out |-> << [pattern |-> regex, view |-> self.target,
                                  kwargs |-> IF self.extraContext = NoRef
                                             THEN NoKwargs
                                             ELSE Kwargs(ContextKwargs(
                                                    ctx[self.extraContext])),
                                  name |-> name] >>]
                ELSE IF redirect.t = "str" /\ redirect.s # <<>>
                THEN [err |-> None,
                      out |-> << [pattern |-> regex, view |-> redirect_to,
                                  kwargs |-> Kwargs("url" :> redirect),
                                  name |-> name] >>]
                ELSE
                    LET obj == getObj(self)
                        kwargs == ("obj" :> obj.val) @@ ("target" :> self.target)
                                  @@ ("section" :> [t |-> "section", s |-> <<>>,
                                                    id |-> section])
                                  @@ ("condition" :> [t |-> "show", s |-> <<>>,
                                                      id |-> i])
                        merged == IF self.extraContext = NoRef THEN kwargs
                                  ELSE ContextKwargs(ctx[self.extraContext])
                                       @@ kwargs
                    IN  IF obj.err # None
                        THEN [err |-> obj.err, out |-> <<>>]
                        ELSE [err |-> None,
                              out |-> << [pattern |-> regex, view |-> dispatch,
                                          kwargs |-> Kwargs(merged),
                                          name |-> name] >>]

\* Options.urlPattern(pattern, section, name) of the Options object i of the
\* heap os, all of the generator. ctx is the heap of the extraContext
\* mappings. Nothing is yielded unless active and exists; the tuple is the
\* one of the redirect (called first when it is callable) that is a str and
\* not empty, else the one of the target that is a plain function, else the
\* one of dispatch.
urlPattern(os, ctx, i, pattern, section, name) ==
    LET self == os[i]
    IN  IF ~(self.active /\ self.exists)
        THEN [err |-> None, out |-> <<>>]
        ELSE
            LET regex == UrlRegex(pattern)
                redirect == self.redirect.value
            IN  IF redirect.t = "str" /\ redirect.s # <<>>
                THEN [err |-> None,
                      out |-> << [pattern |-> regex, view |-> redirect_to,
                                  kwargs |-> Kwargs("url" :> redirect),
                                  name |-> name] >>]
                ELSE IF self.target.t = "function"
                THEN [err |-> None,
                      out |-> << [pattern |-> regex, view |-> self.target,
                                  kwargs |-> IF self.extraContext = NoRef
                                             THEN NoKwargs
                                             ELSE Kwargs(ContextKwargs(
                                                    ctx[self.extraContext])),
                                  name |-> name] >>]
                ELSE
                    LET obj == getObj(self)
                        kwargs == ("obj" :> obj.val) @@ ("target" :> self.target)
                                  @@ ("section" :> [t |-> "section", s |-> <<>>,
                                                    id |-> section])
                                  @@ ("condition" :> [t |-> "show", s |-> <<>>,
                                                      id |-> i])
                        merged == IF self.extraContext = NoRef THEN kwargs
                                  ELSE ContextKwargs(ctx[self.extraContext])
                                       @@ kwargs
                    IN  IF obj.err # None
                        THEN [err |-> obj.err, out |-> <<>>]
                        ELSE [err |-> None,
                              out |-> << [pattern |-> regex, view |-> dispatch,
                                          kwargs |-> Kwargs(merged),
                                          name |-> name] >>]

---------------------------------------------------------------------------
(* Section *)

NoList == [has |-> FALSE, l |-> <<>>]

\* An attribute that holds a bool once it is set: not set yet
NoFlag == [has |-> FALSE, b |-> FALSE]
Flag(b) == [has |-> TRUE, b |-> b]

\* Section.__init__
Section(url, name, parent) ==
    [url |-> url, name |-> name, parent |-> parent, _options |-> NoRef,
     children |-> <<>>, _pattern |-> NoList, pattern |-> NoList,
     selected |-> NoFlag]

\* Section.__getattr__('options') on section n of the state S = [secs, os]:
\* the Options object is made on the first access. ref is the object.
options(S, n) ==
    LET current == S.secs[n]._options
    IN  IF current = NoRef
        THEN [secs |-> [S.secs EXCEPT ![n]._options = Len(S.os) + 1],
              os |-> Append(S.os, Options(<<>>)),
              ref |-> Len(S.os) + 1]
        ELSE [secs |-> S.secs, os |-> S.os, ref |-> current]

\* "(?P<%s>%s)" % (match, url)
NamedGroup(match, url) == "(?P<" \o match \o ">" \o url \o ")"

RECURSIVE getPatternCached(_, _)
\* Section.getPattern as a mutant: the list stored by an earlier call is
\* read back (the attribute read is the one the method writes)
getPatternCached(S, n) ==
    IF S.secs[n].pattern.has /\ S.secs[n].pattern.l # <<>>
    THEN [secs |-> S.secs, os |-> S.os, val |-> S.secs[n].pattern.l]
    ELSE
        LET up == IF S.secs[n].parent # NoRef
                  THEN getPatternCached(S, S.secs[n].parent)
                  ELSE [secs |-> S.secs, os |-> S.os, val |-> <<>>]
            O == options(up, n)
            match == O.os[O.ref].match
            pattern == IF TruthyStr(match)
                       THEN Append(up.val, NamedGroup(match, O.secs[n].url))
                       ELSE Append(up.val, O.secs[n].url)
        IN  [secs |-> [O.secs EXCEPT ![n].pattern = [has |-> TRUE, l |-> pattern]],
             os |-> O.os, val |-> pattern]

RECURSIVE getPatternNoRoot(_, _)
\* Section.getPattern as a mutant: a section without parent adds no segment
getPatternNoRoot(S, n) ==
    IF S.secs[n]._pattern.has /\ S.secs[n]._pattern.l # <<>>
    THEN [secs |-> S.secs, os |-> S.os, val |-> S.secs[n]._pattern.l]
    ELSE
        LET up == IF S.secs[n].parent # NoRef
                  THEN getPatternNoRoot(S, S.secs[n].parent)
                  ELSE [secs |-> S.secs, os |-> S.os, val |-> <<>>]
            O == options(up, n)
            match == O.os[O.ref].match
            pattern == IF S.secs[n].parent = NoRef THEN <<>>
                       ELSE IF TruthyStr(match)
                       THEN Append(up.val, NamedGroup(match, O.secs[n].url))
                       ELSE Append(up.val, O.secs[n].url)
        IN  [secs |-> [O.secs EXCEPT ![n].pattern = [has |-> TRUE, l |-> pattern]],
             os |-> O.os, val |-> pattern]

RECURSIVE getPattern(_, _)
\* Section.getPattern on section n: returns self._pattern when that is set;
\* otherwise a copy of the parent's pattern with the section's own segment
\* appended, which it stores as self.pattern
getPattern(S, n) ==
    IF S.secs[n]._pattern.has /\ S.secs[n]._pattern.l # <<>>
    THEN [secs |-> S.secs, os |-> S.os, val |-> S.secs[n]._pattern.l]
    ELSE
        LET up == IF S.secs[n].parent # NoRef
                  THEN getPattern(S, S.secs[n].parent)
                  ELSE [secs |-> S.secs, os |-> S.os, val |-> <<>>]
            O == options(up, n)
            match == O.os[O.ref].match
            pattern == IF TruthyStr(match)
                       THEN Append(up.val, NamedGroup(match, O.secs[n].url))
                       ELSE Append(up.val, O.secs[n].url)
        IN  [secs |-> [O.secs EXCEPT ![n].pattern = [has |-> TRUE, l |-> pattern]],
             os |-> O.os, val |-> pattern]

\* The Options object of a section that has one
Opt(S, n) == S.os[S.secs[n]._options]

\* A str of the tree as a sequence: every url of the model is '/' or a word
\* that neither begins nor ends with '/', and so is every segment made of
\* one; it is kept whole, as one element
Chars(s) == IF s = "" THEN <<>> ELSE <<s>>

\* Section.urlPattern of section n, all of the generator:
\* self.options.urlPattern(self.getPattern(), self, self.name)
SectionUrlPattern(S, ctx, n) ==
    LET O == options(S, n)
        P == getPattern([secs |-> O.secs, os |-> O.os], n)
        pattern == PyList([k \in DOMAIN P.val |-> Chars(P.val[k])])
        r == urlPattern(P.os, ctx, O.ref, pattern, n, P.secs[n].name)
    IN  [secs |-> P.secs, os |-> P.os, err |-> r.err, out |-> r.out]

RECURSIVE show(_, _)
\* Section.show: the parent's show() first, the section's own options.show()
\* only when the parent shows
show(S, n) ==
    LET parentShow == IF S.secs[n].parent # NoRef
                      THEN show(S, S.secs[n].parent)
                      ELSE TRUE
    IN  IF parentShow THEN OptionsShow(Opt(S, n)) ELSE FALSE

RECURSIVE __iter__(_, _)
RECURSIVE IterChildren(_, _)
\* The loop of Section.__iter__ over the children cs: all that iterating one
\* child yields, then the same for the next
IterChildren(S, cs) ==
    IF cs = <<>> THEN <<>>
    ELSE __iter__(S, cs[1]) \o IterChildren(S, Tail(cs))

\* Section.__iter__ as a mutant: the section is yielded after its children
__iter__ChildrenFirst(S, n) == IterChildren(S, S.secs[n].children) \o <<n>>

\* Section.__iter__: the section, then what iterating each child yields
__iter__(S, n) == <<n>> \o IterChildren(S, S.secs[n].children)

RECURSIVE rootAncestor(_, _)
\* Section.rootAncestor: the ancestor that has no parent
rootAncestor(S, n) ==
    IF S.secs[n].parent # NoRef
    THEN rootAncestor(S, S.secs[n].parent)
    ELSE n

RECURSIVE showNoShortCircuit(_, _)
\* Section.show as a mutant: the section's own options.show() is called
\* before the parent's show() is looked at
showNoShortCircuit(S, n) ==
    LET parent == IF S.secs[n].parent # NoRef
                  THEN showNoShortCircuit(S, S.secs[n].parent)
                  ELSE [val |-> TRUE, called |-> <<>>]
        own == IF Opt(S, n).condition.callable THEN <<n>> ELSE <<>>
    IN  [val |-> parent.val /\ OptionsShow(Opt(S, n)),
         called |-> parent.called \o own]

RECURSIVE showCalling(_, _)
\* Section.show, with the calls it makes: val is what it returns, called the
\* sections whose callable condition was called, in the order of the calls
showCalling(S, n) ==
    LET parent == IF S.secs[n].parent # NoRef
                  THEN showCalling(S, S.secs[n].parent)
                  ELSE [val |-> TRUE, called |-> <<>>]
    IN  IF parent.val
        THEN [val |-> OptionsShow(Opt(S, n)),
              called |-> IF Opt(S, n).condition.callable
                         THEN Append(parent.called, n)
                         ELSE parent.called]
        ELSE [val |-> FALSE, called |-> parent.called]

\* Section.determineSelection as a mutant: a failed match keeps the rest of
\* the path
determineSelectionKeepsPath(selfUrl, path, parentSelected, url) ==
    IF ~Truthy(parentSelected) \/ ~Truthy(path)
    THEN [err |-> None, r |-> <<PyBool(FALSE), PyList(<<>>)>>]
    ELSE IF path.t # "list"
    THEN [err |-> "TypeError", r |-> <<>>]
    ELSE
        LET u == IF TruthyStr(url) THEN url ELSE selfUrl
            selected == path.l[1] = u
        IN  IF selected
            THEN [err |-> None, r |-> <<PyBool(selected), PyList(Tail(path.l))>>]
            ELSE [err |-> None, r |-> <<PyBool(FALSE), PyList(Tail(path.l))>>]

\* Section.determineSelection as a mutant: the parent's selection is ignored
determineSelectionNoParent(selfUrl, path, parentSelected, url) ==
    IF ~Truthy(path)
    THEN [err |-> None, r |-> <<PyBool(FALSE), PyList(<<>>)>>]
    ELSE IF path.t # "list"
    THEN [err |-> "TypeError", r |-> <<>>]
    ELSE
        LET u == IF TruthyStr(url) THEN url ELSE selfUrl
            selected == path.l[1] = u
        IN  IF selected
            THEN [err |-> None, r |-> <<PyBool(selected), PyList(Tail(path.l))>>]
            ELSE [err |-> None, r |-> <<PyBool(FALSE), PyList(<<>>)>>]

\* Section.determineSelection(path, parentSelected, url) of a section whose
\* url is selfUrl. r is the tuple returned; path[0] of a value that is no
\* list raises TypeError.
determineSelection(selfUrl, path, parentSelected, url) ==
    IF ~Truthy(parentSelected) \/ ~Truthy(path)
    THEN [err |-> None, r |-> <<PyBool(FALSE), PyList(<<>>)>>]
    ELSE IF path.t # "list"
    THEN [err |-> "TypeError", r |-> <<>>]
    ELSE
        LET u == IF TruthyStr(url) THEN url ELSE selfUrl
            selected == path.l[1] = u
        IN  IF selected
            THEN [err |-> None, r |-> <<PyBool(selected), PyList(Tail(path.l))>>]
            ELSE [err |-> None, r |-> <<PyBool(FALSE), PyList(<<>>)>>]

\* str.capitalize on the urls of the model
Capitalize(s) ==
    CASE s = "products" -> "Products"
      [] OTHER -> s

\* Section.getInfo as a mutant: options.active is not looked at
getInfoOfInactive(S, n, path, parentUrl, parentSelected) ==
    LET self == S.secs[n]
        o == Opt(S, n)
    IN  IF ~(o.exists /\ show(S, n))
        THEN [err |-> None, out |-> <<>>]
        ELSE IF o.values # NoRef
        THEN [err |-> "AttributeError", out |-> <<>>]
        ELSE
            LET alias == IF TruthyStr(o.alias) THEN o.alias
                         ELSE Capitalize(self.url)
                url == self.url
                ds == determineSelection(self.url, path, parentSelected, url)
                path2 == ds.r[1]
                selected == ds.r[2]
                fullUrl0 == IF parentUrl = <<>> THEN <<>> ELSE parentUrl
                fullUrl == IF TruthyStr(url) THEN Append(fullUrl0, url)
                           ELSE fullUrl0
            IN  IF ds.err # None
                THEN [err |-> ds.err, out |-> <<>>]
                ELSE [err |-> None,
                      out |-> << [url |-> self.url, fullUrl |-> fullUrl,
                                  alias |-> alias, selected |-> selected,
                                  children |-> self.children,
                                  options |-> self._options,
                                  path |-> path2] >>]

\* Section.getInfo(path, parentUrl, parentSelected) of section n, all of the
\* generator: out is the sequence of tuples it yields, err the exception that
\* ends it. The tuple's field path is the local variable path that the
\* helper get hands to gen together with selected.
getInfo(S, n, path, parentUrl, parentSelected) ==
    LET self == S.secs[n]
        o == Opt(S, n)
    IN  IF ~(o.active /\ o.exists /\ show(S, n))
        THEN [err |-> None, out |-> <<>>]
        ELSE IF o.values # NoRef
        THEN \* self.values: Section has no such attribute
             [err |-> "AttributeError", out |-> <<>>]
        ELSE
            LET alias == IF TruthyStr(o.alias) THEN o.alias
                         ELSE Capitalize(self.url)
                url == self.url
                ds == determineSelection(self.url, path, parentSelected, url)
                \* path, selected = self.determineSelection(...)
                path2 == ds.r[1]
                selected == ds.r[2]
                fullUrl0 == IF parentUrl = <<>> THEN <<>> ELSE parentUrl
                fullUrl == IF TruthyStr(url) THEN Append(fullUrl0, url)
                           ELSE fullUrl0
            IN  IF ds.err # None
                THEN [err |-> ds.err, out |-> <<>>]
                ELSE [err |-> None,
                      out |-> << [url |-> self.url, fullUrl |-> fullUrl,
                                  alias |-> alias, selected |-> selected,
                                  children |-> self.children,
                                  options |-> self._options,
                                  path |-> path2] >>]

\* Section.getInfo as a mutant: fullUrl is the caller's list itself when
\* there is one
getInfoAliasing(S, n, L, path, parentUrl, parentSelected) ==
    LET self == S.secs[n]
        o == Opt(S, n)
    IN  IF ~(o.active /\ o.exists /\ show(S, n))
        THEN [err |-> None, lists |-> L, out |-> <<>>]
        ELSE IF o.values # NoRef
        THEN [err |-> "AttributeError", lists |-> L, out |-> <<>>]
        ELSE
            LET alias == IF TruthyStr(o.alias) THEN o.alias
                         ELSE Capitalize(self.url)
                url == self.url
                ds == determineSelection(self.url, PyList(L[path]),
                                         parentSelected, url)
                made == IF parentUrl = NoRef THEN Append(L, <<>>) ELSE L
                fullUrl == IF parentUrl = NoRef THEN Len(L) + 1 ELSE parentUrl
                appended == IF TruthyStr(url)
                            THEN [made EXCEPT ![fullUrl] = Append(@, url)]
                            ELSE made
            IN  IF ds.err # None
                THEN [err |-> ds.err, lists |-> L, out |-> <<>>]
                ELSE [err |-> None, lists |-> appended,
                      out |-> << [url |-> self.url, fullUrl |-> fullUrl,
                                  alias |-> alias, selected |-> ds.r[2],
                                  children |-> self.children,
                                  options |-> self._options] >>]

\* Section.getInfo(path, parentUrl, parentSelected) of section n with the
\* lists as objects: L is the heap of the lists, path a list of it and
\* parentUrl a list of it or None. fullUrl of the tuple is a list of the heap
\* lists that the call leaves: a new list, [] or the copy parentUrl[:], to
\* which the url is appended when it is not empty.
getInfoOnLists(S, n, L, path, parentUrl, parentSelected) ==
    LET self == S.secs[n]
        o == Opt(S, n)
    IN  IF ~(o.active /\ o.exists /\ show(S, n))
        THEN [err |-> None, lists |-> L, out |-> <<>>]
        ELSE IF o.values # NoRef
        THEN [err |-> "AttributeError", lists |-> L, out |-> <<>>]
        ELSE
            LET alias == IF TruthyStr(o.alias) THEN o.alias
                         ELSE Capitalize(self.url)
                url == self.url
                ds == determineSelection(self.url, PyList(L[path]),
                                         parentSelected, url)
                made == IF parentUrl = NoRef \/ L[parentUrl] = <<>>
                        THEN Append(L, <<>>)
                        ELSE Append(L, L[parentUrl])
                fullUrl == Len(L) + 1
                appended == IF TruthyStr(url)
                            THEN [made EXCEPT ![fullUrl] = Append(@, url)]
                            ELSE made
            IN  IF ds.err # None
                THEN [err |-> ds.err, lists |-> L, out |-> <<>>]
                ELSE [err |-> None, lists |-> appended,
                      out |-> << [url |-> self.url, fullUrl |-> fullUrl,
                                  alias |-> alias, selected |-> ds.r[2],
                                  children |-> self.children,
                                  options |-> self._options] >>]

RECURSIVE MenuWalk(_, _, _, _, _, _)
RECURSIVE MenuWalkChildren(_, _, _, _, _, _, _)

\* A menu traversal from section n: the tuple getInfo yields for a section is
\* reported, and each child is asked for its getInfo with the tuple's
\* fullUrl, its selected and the path that goes with it, as the helper get
\* gives them to gen. up lists, from the top, whether each section above was
\* reported selected; an exception ends the traversal.
MenuWalk(S, n, path, parentUrl, parentSelected, up) ==
    LET info == getInfo(S, n, path, parentUrl, parentSelected)
    IN  IF info.err # None
        THEN [err |-> info.err, reps |-> <<>>]
        ELSE IF info.out = <<>>
        THEN [err |-> None, reps |-> <<>>]
        ELSE
            LET t == info.out[1]
                rep == [node |-> n, url |-> t.url, fullUrl |-> t.fullUrl,
                        alias |-> t.alias, selected |-> t.selected,
                        inPath |-> path, inSelected |-> parentSelected,
                        up |-> up]
                below == MenuWalkChildren(S, t.children, 1, t.path, t.fullUrl,
                                          t.selected,
                                          Append(up, Truthy(t.selected)))
            IN  [err |-> below.err, reps |-> <<rep>> \o below.reps]

MenuWalkChildren(S, children, i, path, parentUrl, parentSelected, up) ==
    IF i > Len(children)
    THEN [err |-> None, reps |-> <<>>]
    ELSE
        LET one == MenuWalk(S, children[i], path, parentUrl, parentSelected, up)
        IN  IF one.err # None
            THEN one
            ELSE
                LET rest == MenuWalkChildren(S, children, i + 1, path,
                                             parentUrl, parentSelected, up)
                IN  [err |-> rest.err, reps |-> one.reps \o rest.reps]

\* Section.patternList of section n, all of the generator. Its first
\* expression, section.showBase, reads the name section, which is neither a
\* local of the method (its only local is self) nor a name of the module:
\* the generator raises NameError before it yields anything.
patternList(S, n) == [err |-> "NameError", out |-> <<>>]

---------------------------------------------------------------------------
(* Menu *)

\* A generator of getGlobal that was not made yet, or is exhausted
NoWalk == [on |-> FALSE, pos |-> 0]

\* Menu.__init__, with the generator of the getGlobal() call in progress:
\* pos is the number of sections of the site it has gone through
Menu(site, selectedSection, remainingUrl) ==
    [site |-> site, selectedSection |-> selectedSection,
     remainingUrl |-> remainingUrl, walk |-> NoWalk]

\* Menu.getGlobal as a mutant: one turn of the loop that leaves the section
\* as it is
getGlobalNextNoWrite(secs, menu) ==
    LET section == menu.site[menu.walk.pos + 1]
    IN  [secs |-> secs, section |-> section,
         info |-> [self |-> section, path |-> menu.remainingUrl]]

\* Menu.getGlobal, one turn of its loop, from one yield to the next: the
\* attribute selected of the next section of the site is set to whether it
\* is the selected section of the menu, and the generator
\* section.getInfo(self.remainingUrl) is yielded, not run
getGlobalNext(secs, menu) ==
    LET section == menu.site[menu.walk.pos + 1]
    IN  [secs |-> [secs EXCEPT ![section].selected =
                      Flag(section = menu.selectedSection)],
         section |-> section,
         info |-> [self |-> section, path |-> menu.remainingUrl]]

\* Menu.heirarchial(section, path, parentUrl, parentSelected), all of the
\* generator; section None and path empty are replaced by those of the
\* menu. With showBase it yields the tuples of section.getInfo; without, it
\* appends the url to parentUrl and then reads self.hierarchial for the
\* first child, an attribute that Menu does not have.
heirarchial(S, menu, section, path, parentUrl, parentSelected) ==
    LET sec == IF section = NoRef THEN menu.selectedSection ELSE section
        p == IF path = <<>> THEN menu.remainingUrl ELSE path
    IN  IF sec = NoRef
        THEN [secs |-> S.secs, os |-> S.os, err |-> "AttributeError",
              out |-> <<>>, parentUrl |-> parentUrl]
        ELSE
            LET O == options(S, sec)
                self == O.secs[sec]
            IN  IF O.os[O.ref].showBase
                THEN LET info == getInfo([secs |-> O.secs, os |-> O.os], sec,
                                         PyList(p), parentUrl,
                                         PyBool(parentSelected))
                     IN  [secs |-> O.secs, os |-> O.os, err |-> info.err,
                          out |-> info.out, parentUrl |-> parentUrl]
                ELSE LET appended == IF TruthyStr(self.url)
                                     THEN Append(parentUrl, self.url)
                                     ELSE parentUrl
                     IN  [secs |-> O.secs, os |-> O.os,
                          err |-> IF self.children = <<>> THEN None
                                  ELSE "AttributeError",
                          out |-> <<>>, parentUrl |-> appended]

\* Menu.getLayer(section, path, parentUrl, parentselected), all of the
\* generator. With showBase the arguments of getInfo read the name parenturl,
\* which is bound nowhere; without, child.getLayer is read for every child,
\* an attribute that Section does not have, so parts are only yielded for a
\* section without children, and then there are none.
getLayer(S, section) ==
    LET O == options(S, section)
    IN  IF O.os[O.ref].showBase
        THEN [secs |-> O.secs, os |-> O.os, err |-> "NameError", out |-> <<>>]
        ELSE IF O.secs[section].children # <<>>
        THEN [secs |-> O.secs, os |-> O.os, err |-> "AttributeError",
              out |-> <<>>]
        ELSE [secs |-> O.secs, os |-> O.os, err |-> None, out |-> <<>>]

\* Menu.layered(selected, ...), all of the generator; selected None is
\* replaced by the selected section of the menu. The loop runs while
\* selected is set; a layer without a selected part ends it, and every
\* layer that getLayer completes is empty, so the loop has at most one turn.
\* The list l of the last turn is yielded once, after the loop; without a
\* turn l is not bound.
layered(S, menu, selected) ==
    LET sel == IF selected = NoRef THEN menu.selectedSection ELSE selected
    IN  IF sel = NoRef
        THEN [secs |-> S.secs, os |-> S.os, err |-> "UnboundLocalError",
              layers |-> <<>>]
        ELSE LET layer == getLayer(S, sel)
             IN  IF layer.err # None
                 THEN [secs |-> layer.secs, os |-> layer.os,
                       err |-> layer.err, layers |-> <<>>]
                 ELSE [secs |-> layer.secs, os |-> layer.os, err |-> None,
                       layers |-> <<layer.out>>]

---------------------------------------------------------------------------
(* Values *)

\* Values.__init__ (values is given as a list here): every parameter is
\* stored, and empty values become a new empty list
Values(values, each, asSet, sorter, sortWithAlias) ==
    [values |-> IF values = <<>> THEN <<>> ELSE values,
     each |-> each, asSet |-> asSet, sorter |-> sorter,
     sortWithAlias |-> sortWithAlias]

---------------------------------------------------------------------------
(* The calls made on a tree of sections *)

Urls == {"products", "42"}

\* url of the root: the default of Section.__init__, and the one of
\* Site.makeBase
RootUrls == {"/", ""}

\* (url, match, name) of a call of add
AddArgs ==
    {<<"products", None, "products">>, <<"42", "id", "detail">>,
     <<"", None, None>>}

\* (match, name) of a call of first
FirstArgs == {<<None, "first">>}

\* keywords of a call of base when the url patterns are asked for
BaseKwargs == {"match" :> "id", "showBase" :> FALSE}

\* keywords of a call of base when the menu is asked for
MenuBaseKwargs == {"active" :> FALSE, "values" :> 1}

RECURSIVE SeqsUpTo(_, _)
SeqsUpTo(S, k) ==
    IF k = 0 THEN {<<>>}
    ELSE LET shorter == SeqsUpTo(S, k - 1)
         IN  shorter \cup {Append(q, x) : q \in shorter, x \in S}

Paths == SeqsUpTo(Urls, MaxPath)

Heap == [secs |-> sections, os |-> opts]

\* No call is in progress
Idle == ret = NoRet

\* No Dispatcher is part of the state
NoDispatcher ==
    /\ views = <<>>
    /\ modules = <<>>
    /\ firstGot = <<>>

Init ==
    /\ \E url \in RootUrls : sections = <<Section(url, None, NoRef)>>
    /\ opts = <<>>
    /\ vals = <<Values(<<1, 2, 3>>, None, FALSE, None, TRUE)>>
    /\ ectx = <<>>
    /\ nbase = 0
    /\ cloned = <<>>
    /\ NoDispatcher
    /\ menus = <<>>
    /\ ret = NoRet

\* Section.add as a mutant: the child is given the Options object of the
\* section itself, not a clone of it
addSharesOptions(p, url, match, name) ==
    /\ Idle
    /\ IF url = ""
       THEN /\ ret' = [op |-> "add", self |-> p, url |-> url,
                       match |-> match, name |-> name,
                       err |-> "ValueError"]
            /\ UNCHANGED <<menus, sections, opts>>
       ELSE /\ Len(sections) < MaxNodes
            /\ LET section == Len(sections) + 1
                   O == options(Heap, p)
                   made == Append(O.secs,
                                  [Section(url, name, p)
                                      EXCEPT !._options = O.ref])
               IN  /\ sections' =
                          [made EXCEPT ![p].children = Append(@, section)]
                   /\ opts' = O.os
                   /\ ret' = [op |-> "add", self |-> p, url |-> url,
                              match |-> match, name |-> name,
                              err |-> None, val |-> section]
    /\ UNCHANGED <<menus, vals, ectx, nbase, cloned, dispatchVars>>

\* Section.add(url, match, name) on section p
add(p, url, match, name) ==
    /\ Idle
    /\ IF url = ""
       THEN /\ ret' = [op |-> "add", self |-> p, url |-> url,
                       match |-> match, name |-> name,
                       err |-> "ValueError"]
            /\ UNCHANGED <<menus, sections, opts>>
       ELSE /\ Len(sections) < MaxNodes
            /\ LET section == Len(sections) + 1
                   O == options(Heap, p)
                   new == clone(O.os[O.ref], "match" :> match)
                   made == Append(O.secs,
                                  [Section(url, name, p)
                                      EXCEPT !._options = Len(O.os) + 1])
               IN  /\ sections' =
                          [made EXCEPT ![p].children = Append(@, section)]
                   /\ opts' = Append(O.os, new)
                   /\ ret' = [op |-> "add", self |-> p, url |-> url,
                              match |-> match, name |-> name,
                              err |-> None, val |-> section]
    /\ UNCHANGED <<menus, vals, ectx, nbase, cloned, dispatchVars>>

\* Section.first as a mutant: a first section that is there already is kept
firstKeepsOld(p, match, name) ==
    /\ Idle
    /\ Len(sections) < MaxNodes
    /\ LET section == Len(sections) + 1
           children == sections[p].children
           O == options(Heap, p)
           new == clone(O.os[O.ref], "match" :> match)
           made == Append(O.secs,
                          [Section("", name, p)
                              EXCEPT !._options = Len(O.os) + 1])
       IN  /\ sections' = [made EXCEPT ![p].children = <<section>> \o children]
           /\ opts' = Append(O.os, new)
           /\ ret' = [op |-> "first", self |-> p, match |-> match,
                      name |-> name, val |-> section]
    /\ UNCHANGED <<menus, vals, ectx, nbase, cloned, dispatchVars>>

\* Section.first(match, name) on section p
first(p, match, name) ==
    /\ Idle
    /\ Len(sections) < MaxNodes
    /\ LET section == Len(sections) + 1
           children == sections[p].children
           popped == IF children # <<>> /\ sections[children[1]].url = ""
                     THEN Tail(children)
                     ELSE children
           O == options(Heap, p)
           new == clone(O.os[O.ref], "match" :> match)
           made == Append(O.secs,
                          [Section("", name, p)
                              EXCEPT !._options = Len(O.os) + 1])
       IN  /\ sections' = [made EXCEPT ![p].children = <<section>> \o popped]
           /\ opts' = Append(O.os, new)
           /\ ret' = [op |-> "first", self |-> p, match |-> match,
                      name |-> name, val |-> section]
    /\ UNCHANGED <<menus, vals, ectx, nbase, cloned, dispatchVars>>

\* Section.base(**kwargs) on section n
base(n, kwargs) ==
    /\ Idle
    /\ nbase < MaxBase
    /\ nbase' = nbase + 1
    /\ LET O == options(Heap, n)
       IN  /\ sections' = O.secs
           /\ opts' = update(O.os, O.ref, kwargs)
    /\ ret' = [op |-> "base", self |-> n, val |-> n]
    /\ UNCHANGED <<menus, vals, ectx, cloned, dispatchVars>>

\* A call of getPattern() on section n
GetPattern(n) ==
    /\ Idle
    /\ LET r == getPattern(Heap, n)
       IN  /\ sections' = r.secs
           /\ opts' = r.os
           /\ ret' = [op |-> "getPattern", self |-> n, val |-> r.val]
    /\ UNCHANGED <<menus, vals, ectx, nbase, cloned, dispatchVars>>

\* A call of determineSelection(path, parentSelected, url) on section n
DetermineSelection(n, path, parentSelected, url) ==
    /\ Idle
    /\ LET r == determineSelection(sections[n].url, PyList(path),
                                   PyBool(parentSelected), url)
       IN  ret' = [op |-> "determineSelection", self |-> n, path |-> path,
                   parentSelected |-> parentSelected, url |-> url,
                   err |-> r.err, val |-> r.r]
    /\ UNCHANGED <<menus, sections, opts, vals, ectx, nbase, cloned, dispatchVars>>

\* A menu traversal that starts with getInfo(path, None, parentSelected) on
\* section n
Traverse(n, path, parentSelected) ==
    /\ Idle
    /\ LET O == options(Heap, n)
           r == MenuWalk(O, n, PyList(path), <<>>, PyBool(parentSelected), <<>>)
       IN  /\ sections' = O.secs
           /\ opts' = O.os
           /\ ret' = [op |-> "traverse", self |-> n, path |-> path,
                      parentSelected |-> parentSelected,
                      err |-> r.err, reps |-> r.reps]
    /\ UNCHANGED <<menus, vals, ectx, nbase, cloned, dispatchVars>>

\* Two successive calls of patternList() on section n, each run to its end
PatternListTwice(n) ==
    /\ Idle
    /\ LET one == patternList(Heap, n)
           two == patternList(Heap, n)
       IN  ret' = [op |-> "patternList", self |-> n, one |-> one, two |-> two]
    /\ UNCHANGED <<menus, sections, opts, vals, ectx, nbase, cloned, dispatchVars>>

\* list(section) on section n
Iterate(n) ==
    /\ Idle
    /\ ret' = [op |-> "iter", self |-> n, out |-> __iter__(Heap, n)]
    /\ UNCHANGED <<menus, sections, opts, vals, ectx, nbase, cloned, dispatchVars>>

\* A call of rootAncestor() on section n
RootAncestor(n) ==
    /\ Idle
    /\ ret' = [op |-> "rootAncestor", self |-> n,
               val |-> rootAncestor(Heap, n)]
    /\ UNCHANGED <<menus, sections, opts, vals, ectx, nbase, cloned, dispatchVars>>

\* The caller takes the result of the call: the next call can be made
Return ==
    /\ ~Idle
    /\ ret' = NoRet
    /\ UNCHANGED <<menus, sections, opts, vals, ectx, nbase, cloned, dispatchVars>>

\* Building a tree and asking for its url patterns
Next ==
    \/ \E p \in DOMAIN sections, a \in AddArgs : add(p, a[1], a[2], a[3])
    \/ \E p \in DOMAIN sections, a \in FirstArgs : first(p, a[1], a[2])
    \/ \E n \in DOMAIN sections, kw \in BaseKwargs : base(n, kw)
    \/ \E n \in DOMAIN sections : GetPattern(n)
    \/ \E n \in DOMAIN sections : PatternListTwice(n)
    \/ Return

Spec == Init /\ [][Next]_vars

\* Building a tree and going through it
NextTree ==
    \/ \E p \in DOMAIN sections, a \in AddArgs : add(p, a[1], a[2], a[3])
    \/ \E p \in DOMAIN sections, a \in FirstArgs : first(p, a[1], a[2])
    \/ \E n \in DOMAIN sections, kw \in BaseKwargs : base(n, kw)
    \/ \E n \in DOMAIN sections : Iterate(n)
    \/ \E n \in DOMAIN sections : RootAncestor(n)
    \/ Return

SpecTree == Init /\ [][NextTree]_vars

\* Building a tree and asking for its menu
NextMenu ==
    \/ \E p \in DOMAIN sections, a \in AddArgs : add(p, a[1], a[2], a[3])
    \/ \E p \in DOMAIN sections, a \in FirstArgs : first(p, a[1], a[2])
    \/ \E n \in DOMAIN sections, kw \in MenuBaseKwargs : base(n, kw)
    \/ \E n \in DOMAIN sections, path \in Paths, ps \in BOOLEAN :
            Traverse(n, path, ps)
    \/ Return

\* The tree of a menu starts with Section()
InitMenu ==
    /\ sections = <<Section("/", None, NoRef)>>
    /\ opts = <<>>
    /\ vals = <<Values(<<1, 2, 3>>, None, FALSE, None, TRUE)>>
    /\ ectx = <<>>
    /\ nbase = 0
    /\ cloned = <<>>
    /\ NoDispatcher
    /\ menus = <<>>
    /\ ret = NoRet

SpecMenu == InitMenu /\ [][NextMenu]_vars

\* determineSelection on a section of any url
InitSelection ==
    /\ \E url \in RootUrls \cup Urls : sections = <<Section(url, None, NoRef)>>
    /\ opts = <<>>
    /\ vals = <<>>
    /\ ectx = <<>>
    /\ nbase = 0
    /\ cloned = <<>>
    /\ NoDispatcher
    /\ menus = <<>>
    /\ ret = NoRet

NextSelection ==
    \/ \E n \in DOMAIN sections, path \in Paths, ps \in BOOLEAN,
          url \in {None, ""} \cup Urls :
            DetermineSelection(n, path, ps, url)
    \/ Return

SpecSelection == InitSelection /\ [][NextSelection]_vars

\* A call of urlPattern() on section n, the generator run to its end
UrlPatterns(n) ==
    /\ Idle
    /\ LET r == SectionUrlPattern(Heap, ectx, n)
       IN  /\ sections' = r.secs
           /\ opts' = r.os
           /\ ret' = [op |-> "urlPattern", self |-> n, err |-> r.err,
                      out |-> r.out]
    /\ UNCHANGED <<menus, vals, ectx, nbase, cloned, dispatchVars>>

\* (url, match, name) of a call of add when the routes of a section with
\* values are asked for
RouteAddArgs == {<<"item", None, "item">>}

\* keywords of a call of base that hides a section or gives it values
RouteBaseKwargs == {"active" :> FALSE, "exists" :> FALSE, "values" :> 1}

\* the request paths of the menus
RoutePaths == {<<>>, <<"/">>, <<"/", "item">>}

\* The tree starts with Section(); the Values object is
\* Values(values=lambda path: [1,2,3], each=lambda path, v: (str(v), str(v)))
InitRoutes ==
    /\ sections = <<Section("/", None, NoRef)>>
    /\ opts = <<>>
    /\ vals = <<Values(<<1, 2, 3>>, "lambda path, v: (str(v), str(v))",
                       FALSE, None, TRUE)>>
    /\ ectx = <<>>
    /\ nbase = 0
    /\ cloned = <<>>
    /\ NoDispatcher
    /\ menus = <<>>
    /\ ret = NoRet

\* Building a tree, hiding sections, and asking for the url patterns and the
\* menu
NextRoutes ==
    \/ \E p \in DOMAIN sections, a \in RouteAddArgs : add(p, a[1], a[2], a[3])
    \/ \E n \in DOMAIN sections, kw \in RouteBaseKwargs : base(n, kw)
    \/ \E n \in DOMAIN sections : UrlPatterns(n)
    \/ \E n \in DOMAIN sections : PatternListTwice(n)
    \/ \E n \in DOMAIN sections, path \in RoutePaths, ps \in BOOLEAN :
            Traverse(n, path, ps)
    \/ Return

SpecRoutes == InitRoutes /\ [][NextRoutes]_vars

\* A call of show() on section n. The Options object of every section on the
\* way down that is asked is read, so the one of the root is made if it was
\* not yet.
Show(n) ==
    /\ Idle
    /\ LET O == options(Heap, rootAncestor(Heap, n))
           r == showCalling(O, n)
       IN  /\ sections' = O.secs
           /\ opts' = O.os
           /\ ret' = [op |-> "show", self |-> n, val |-> r.val,
                      called |-> r.called]
    /\ UNCHANGED <<menus, vals, ectx, nbase, cloned, dispatchVars>>

\* keywords of a call of base that sets a condition: a function that returns
\* True, the value True, a function that returns False
ShowBaseKwargs ==
    {"condition" :> Callable(TRUE), "condition" :> Plain(TRUE),
     "condition" :> Callable(FALSE)}

\* Building a tree, setting conditions, and asking whether sections show
NextShow ==
    \/ \E p \in DOMAIN sections, a \in RouteAddArgs : add(p, a[1], a[2], a[3])
    \/ \E p \in DOMAIN sections, a \in FirstArgs : first(p, a[1], a[2])
    \/ \E n \in DOMAIN sections, kw \in ShowBaseKwargs : base(n, kw)
    \/ \E n \in DOMAIN sections : Show(n)
    \/ Return

SpecShow == InitMenu /\ [][NextShow]_vars

\* The parentUrl given to getInfo: None, [] or ['/']
InfoParentUrls ==
    {NoList, [has |-> TRUE, l |-> <<>>], [has |-> TRUE, l |-> <<"/">>]}

\* keywords of a call of base before getInfo is called
InfoBaseKwargs == {"active" :> FALSE, "alias" :> "Shop"}

\* Two calls of getInfo, on n1 and then on n2, with the same path list and
\* the same parentUrl list, as a menu makes them for two children of a
\* section; each generator is run to its end. The lists of the caller are
\* the first of the heap of lists.
GetInfoPair(n1, n2, path, parentUrl, parentSelected) ==
    /\ Idle
    /\ LET before == IF parentUrl.has THEN <<path, parentUrl.l>> ELSE <<path>>
           pu == IF parentUrl.has THEN 2 ELSE NoRef
           O1 == options(Heap, n1)
           O2 == options(O1, n2)
           one == getInfoOnLists(O2, n1, before, 1, pu, PyBool(parentSelected))
           two == getInfoOnLists(O2, n2, one.lists, 1, pu,
                                 PyBool(parentSelected))
       IN  /\ sections' = O2.secs
           /\ opts' = O2.os
           /\ ret' = [op |-> "getInfo", self |-> n1, other |-> n2,
                      parentUrl |-> parentUrl, before |-> before,
                      lists |-> two.lists,
                      one |-> [err |-> one.err, out |-> one.out],
                      two |-> [err |-> two.err, out |-> two.out]]
    /\ UNCHANGED <<menus, vals, ectx, nbase, cloned, dispatchVars>>

\* Building a tree and calling getInfo on its sections
NextInfo ==
    \/ \E p \in DOMAIN sections, a \in RouteAddArgs : add(p, a[1], a[2], a[3])
    \/ \E p \in DOMAIN sections, a \in FirstArgs : first(p, a[1], a[2])
    \/ \E n \in DOMAIN sections, kw \in InfoBaseKwargs : base(n, kw)
    \/ \E n1, n2 \in DOMAIN sections, path \in RoutePaths,
          parentUrl \in InfoParentUrls, ps \in BOOLEAN :
            GetInfoPair(n1, n2, path, parentUrl, ps)
    \/ Return

SpecInfo == InitMenu /\ [][NextInfo]_vars

\* next() on the generator of menu m's getGlobal(), which is made if there
\* is none: one more section of the site, or StopIteration
GetGlobalNext(m) ==
    /\ Idle
    /\ LET menu == menus[m]
       IN  IF menu.walk.pos < Len(menu.site)
           THEN LET r == getGlobalNext(sections, menu)
                IN  /\ sections' = r.secs
                    /\ menus' = [menus EXCEPT ![m].walk =
                                    [on |-> TRUE, pos |-> menu.walk.pos + 1]]
                    /\ ret' = [op |-> "getGlobal.next", menu |-> m,
                               stop |-> FALSE, section |-> r.section,
                               info |-> r.info]
           ELSE /\ sections' = sections
                /\ menus' = [menus EXCEPT ![m].walk = NoWalk]
                /\ ret' = [op |-> "getGlobal.next", menu |-> m,
                           stop |-> TRUE, section |-> NoRef,
                           info |-> [self |-> NoRef, path |-> <<>>]]
    /\ UNCHANGED <<opts, vals, ectx, nbase, cloned, dispatchVars>>

\* list(menu.heirarchial(section, parentSelected=parentSelected)) on menu m
Heirarchial(m, section, parentSelected) ==
    /\ Idle
    /\ LET r == heirarchial(Heap, menus[m], section, <<>>, <<>>,
                            parentSelected)
       IN  /\ sections' = r.secs
           /\ opts' = r.os
           /\ ret' = [op |-> "heirarchial", menu |-> m,
                      section |-> IF section = NoRef
                                  THEN menus[m].selectedSection ELSE section,
                      parentSelected |-> parentSelected,
                      err |-> r.err, out |-> r.out]
    /\ UNCHANGED <<menus, vals, ectx, nbase, cloned, dispatchVars>>

\* list(menu.layered(selected)) on menu m
Layered(m, selected) ==
    /\ Idle
    /\ LET r == layered(Heap, menus[m], selected)
       IN  /\ sections' = r.secs
           /\ opts' = r.os
           /\ ret' = [op |-> "layered", menu |-> m,
                      selected |-> IF selected = NoRef
                                   THEN menus[m].selectedSection ELSE selected,
                      err |-> r.err, layers |-> r.layers]
    /\ UNCHANGED <<menus, vals, ectx, nbase, cloned, dispatchVars>>

\* keywords of a call of base that makes a section a group of its children
WalkBaseKwargs == {"showBase" :> FALSE}

\* The site: two sections without parent; and the menus of two requests, each
\* with its selected section and what is left of the path below it
InitWalks ==
    /\ sections = <<Section("products", "products", NoRef),
                    Section("about", "about", NoRef)>>
    /\ opts = <<>>
    /\ vals = <<>>
    /\ ectx = <<>>
    /\ nbase = 0
    /\ cloned = <<>>
    /\ NoDispatcher
    /\ \E s \in {1, 2} :
          menus = <<Menu(<<1, 2>>, 1, <<"item">>), Menu(<<1, 2>>, s, <<>>)>>
    /\ ret = NoRet

\* Building the site, and the menus walking it, in any order
NextWalks ==
    \/ \E p \in DOMAIN sections, a \in RouteAddArgs : add(p, a[1], a[2], a[3])
    \/ \E n \in DOMAIN sections, kw \in WalkBaseKwargs : base(n, kw)
    \/ \E m \in DOMAIN menus : GetGlobalNext(m)
    \/ \E m \in DOMAIN menus, section \in {NoRef} \cup DOMAIN sections,
          ps \in BOOLEAN : Heirarchial(m, section, ps)
    \/ \E m \in DOMAIN menus, selected \in {NoRef} \cup DOMAIN sections :
            Layered(m, selected)
    \/ Return

SpecWalks == InitWalks /\ [][NextWalks]_vars

---------------------------------------------------------------------------
(* The calls made on Options objects directly *)

\* keywords of Options(...)
ConstructKwargs == {<<>>, ("values" :> 1) @@ ("extraContext" :> 1)}

\* keywords of a call of clone
CloneKwargs ==
    {<<>>, "match" :> "id", "values" :> 2,
     ("alias" :> "Shop") @@ ("extraContext" :> NoRef)}

\* keywords of a call of update
UpdateKwargs == {"active" :> FALSE, "values" :> 2}

InitOptions ==
    /\ sections = <<>>
    /\ nbase = 0
    /\ NoDispatcher
    /\ vals = <<Values(<<1, 2, 3>>, None, FALSE, None, TRUE),
                Values(<<>>, None, FALSE, None, TRUE)>>
    /\ ectx = <<{<<"title", "Shop">>}>>
    /\ \E kwargs \in ConstructKwargs : opts = <<Options(kwargs)>>
    /\ cloned = <<[of |-> NoRef, kwargs |-> {}, values |-> NoRef,
                    extraContext |-> NoRef]>>
    /\ menus = <<>>
    /\ ret = NoRet

\* c = o.clone(**kwargs)
Clone(o, kwargs) ==
    /\ Idle
    /\ Len(opts) < MaxOptions
    /\ opts' = Append(opts, clone(opts[o], kwargs))
    /\ cloned' = Append(cloned,
                         [of |-> o, kwargs |-> DOMAIN kwargs,
                          values |-> opts'[Len(opts) + 1].values,
                          extraContext |-> opts'[Len(opts) + 1].extraContext])
    /\ ret' = [op |-> "clone", self |-> o, kwargs |-> kwargs,
               val |-> Len(opts) + 1]
    /\ UNCHANGED <<menus, vals, ectx, treeVars, dispatchVars>>

\* o.update(**kwargs)
Update(o, kwargs) ==
    /\ Idle
    /\ opts' = update(opts, o, kwargs)
    /\ ret' = [op |-> "update", self |-> o, kwargs |-> kwargs]
    /\ UNCHANGED <<menus, vals, ectx, cloned, treeVars, dispatchVars>>

\* o.values.asSet = True: the Values object of o is changed in place
SetValuesAsSet(o) ==
    /\ Idle
    /\ opts[o].values # NoRef
    /\ ~vals[opts[o].values].asSet
    /\ vals' = [vals EXCEPT ![opts[o].values].asSet = TRUE]
    /\ ret' = [op |-> "values.asSet", self |-> o]
    /\ UNCHANGED <<menus, opts, ectx, cloned, treeVars, dispatchVars>>

\* o.extraContext['user'] = 'me': the mapping of o is changed in place
SetExtraContextItem(o) ==
    /\ Idle
    /\ opts[o].extraContext # NoRef
    /\ <<"user", "me">> \notin ectx[opts[o].extraContext]
    /\ ectx' = [ectx EXCEPT ![opts[o].extraContext] = @ \cup {<<"user", "me">>}]
    /\ ret' = [op |-> "extraContext.setitem", self |-> o]
    /\ UNCHANGED <<menus, opts, vals, cloned, treeVars, dispatchVars>>

NextOptions ==
    \/ \E o \in DOMAIN opts, kwargs \in CloneKwargs : Clone(o, kwargs)
    \/ \E o \in DOMAIN opts, kwargs \in UpdateKwargs : Update(o, kwargs)
    \/ \E o \in DOMAIN opts : SetValuesAsSet(o)
    \/ \E o \in DOMAIN opts : SetExtraContextItem(o)
    \/ Return

SpecOptions == InitOptions /\ [][NextOptions]_vars

\* A call of o.urlPattern(pattern, None, name), the generator run to its end
OptionsUrlPattern(o, pattern, name) ==
    /\ Idle
    /\ LET r == urlPattern(opts, ectx, o, pattern, NoRef, name)
       IN  ret' = [op |-> "options.urlPattern", self |-> o,
                   pattern |-> pattern, name |-> name,
                   err |-> r.err, out |-> r.out]
    /\ UNCHANGED <<menus, opts, vals, ectx, cloned, treeVars, dispatchVars>>

\* A call of o.getObj()
GetObj(o) ==
    /\ Idle
    /\ LET r == getObj(opts[o])
       IN  ret' = [op |-> "getObj", self |-> o, err |-> r.err, val |-> r.val]
    /\ UNCHANGED <<menus, opts, vals, ectx, cloned, treeVars, dispatchVars>>

\* The segments of the patterns: with and without '/', at either end
Segments ==
    {<<>>, <<"/">>, <<"a">>, <<"/", "/">>, <<"a", "/">>, <<"/", "a">>}

\* The patterns given to urlPattern: lists of segments, and a str
Patterns ==
    {PyList(l) : l \in SeqsUpTo(Segments, MaxSegments)}
        \cup {Str(<<"a", "/", "/", "a", "/">>)}

\* keywords of Options(...) when the regex is asked for
RegexKwargs ==
    {<<>>, "active" :> FALSE, "exists" :> FALSE,
     "redirect" :> Plain(Str(<<"/", "h">>)), "target" :> Function(3)}

InitRegex ==
    /\ sections = <<>>
    /\ nbase = 0
    /\ NoDispatcher
    /\ vals = <<>>
    /\ ectx = <<>>
    /\ \E kwargs \in RegexKwargs : opts = <<Options(kwargs)>>
    /\ cloned = <<>>
    /\ menus = <<>>
    /\ ret = NoRet

NextRegex ==
    \/ \E o \in DOMAIN opts, pattern \in Patterns :
            OptionsUrlPattern(o, pattern, None)
    \/ Return

SpecRegex == InitRegex /\ [][NextRegex]_vars

\* keywords of a call of update that sets what the view of the pattern is
\* made from: redirect (a str, an empty str, functions that return a str or
\* None, an object that is no str), target (a function, an object, a name),
\* kls (None, names with and without '.' at the ends, a name the module
\* object lacks, a class), module (a dotted name, a module object, None)
TargetKwargs ==
    {"active" :> FALSE, "active" :> TRUE, "exists" :> FALSE, "exists" :> TRUE,
     "extraContext" :> 1, "extraContext" :> NoRef,
     "redirect" :> Plain(Str(<<"/", "h">>)), "redirect" :> Plain(Str(<<>>)),
     "redirect" :> Callable(Str(<<"/", "h">>)), "redirect" :> Callable(NoneObj),
     "redirect" :> Plain(Obj(7)), "redirect" :> Plain(NoneObj),
     "target" :> Function(3), "target" :> Obj(8),
     "target" :> Str(<<"b", "a", "s", "e">>),
     "kls" :> NoneObj, "kls" :> Str(<<>>), "kls" :> Str(<<".">>),
     "kls" :> Str(<<"V">>), "kls" :> Str(<<".", "V", ".">>),
     "kls" :> Str(<<"V", ".", "b", "a", "s", "e">>),
     "kls" :> Str(<<"W">>), "kls" :> Obj(5),
     "module" :> Str(<<"a", ".", "b">>), "module" :> Obj(4),
     "module" :> NoneObj}

\* The patterns and names given to urlPattern when the view is asked for
TargetPatterns == {PyList(<<(<<"/">>), <<"a">>>>)}
TargetNames == {None, "detail"}

InitTarget ==
    /\ sections = <<>>
    /\ nbase = 0
    /\ NoDispatcher
    /\ vals = <<>>
    /\ ectx = <<{<<"title", "Shop">>}>>
    /\ opts = <<Options(<<>>)>>
    /\ cloned = <<>>
    /\ menus = <<>>
    /\ ret = NoRet

NextTarget ==
    \/ \E o \in DOMAIN opts, kwargs \in TargetKwargs : Update(o, kwargs)
    \/ \E o \in DOMAIN opts, pattern \in TargetPatterns, name \in TargetNames :
            OptionsUrlPattern(o, pattern, name)
    \/ \E o \in DOMAIN opts : GetObj(o)
    \/ Return

SpecTarget == InitTarget /\ [][NextTarget]_vars

---------------------------------------------------------------------------
(* Dispatcher *)

\* __import__(name, globals(), locals(), fromlist, -1) with the modules mods
Import(mods, name, fromlist) ==
    IF name = <<>> THEN [err |-> "ValueError", val |-> <<>>]
    ELSE IF name \notin DOMAIN mods THEN [err |-> "ImportError", val |-> <<>>]
    ELSE [err |-> None, val |-> mods[name]]

\* getattr(module, name)
GetAttr(module, name) ==
    IF name \notin DOMAIN module THEN [err |-> "AttributeError", val |-> Obj(0)]
    ELSE [err |-> None, val |-> module[name]]

\* Dispatcher.find_view as a mutant: the whole dotted path is imported
find_viewImportsAll(mods, location) ==
    IF location.t = "str"
    THEN LET path == Split(location.s, ".")
             name == Join(path, ".")
             fromlist == <<path[Len(path)]>>
             module == Import(mods, name, fromlist)
             imports == <<[name |-> name, fromlist |-> fromlist]>>
         IN  IF module.err # None
             THEN [err |-> module.err, val |-> Obj(0), imports |-> imports]
             ELSE LET attr == GetAttr(module.val, path[Len(path)])
                  IN  [err |-> attr.err, val |-> attr.val, imports |-> imports]
    ELSE [err |-> None, val |-> location, imports |-> <<>>]

\* Dispatcher.find_view(location): a str 'a.b.name' is resolved by importing
\* the module 'a.b' with the from-list ['name'] and taking its attribute
\* name; any other location is returned as it is. imports lists the calls of
\* __import__.
find_view(mods, location) ==
    IF location.t = "str"
    THEN LET path == Split(location.s, ".")
             name == Join(SubSeq(path, 1, Len(path) - 1), ".")
             fromlist == <<path[Len(path)]>>
             module == Import(mods, name, fromlist)
             imports == <<[name |-> name, fromlist |-> fromlist]>>
         IN  IF module.err # None
             THEN [err |-> module.err, val |-> Obj(0), imports |-> imports]
             ELSE LET attr == GetAttr(module.val, path[Len(path)])
                  IN  [err |-> attr.err, val |-> attr.val, imports |-> imports]
    ELSE [err |-> None, val |-> location, imports |-> <<>>]

\* Dispatcher.get_view as a mutant: the view is looked for on every call
get_viewAlwaysFinds(vs, mods, location) ==
    LET found == find_view(mods, location)
    IN  IF found.err # None
        THEN [err |-> found.err, val |-> Obj(0), views |-> vs,
              finds |-> <<location>>]
        ELSE [err |-> None, val |-> found.val,
              views |-> [l \in DOMAIN vs \cup {location} |->
                            IF l = location THEN found.val ELSE vs[l]],
              finds |-> <<location>>]

\* Dispatcher.get_view(location) with the dictionary vs: a location that is
\* not in the dictionary is looked for with find_view and stored; the view
\* in the dictionary is returned. finds lists the calls of find_view.
get_view(vs, mods, location) ==
    IF location \notin DOMAIN vs
    THEN LET found == find_view(mods, location)
         IN  IF found.err # None
             THEN [err |-> found.err, val |-> Obj(0), views |-> vs,
                   finds |-> <<location>>]
             ELSE [err |-> None, val |-> found.val,
                   views |-> [l \in DOMAIN vs \cup {location} |->
                                 IF l = location THEN found.val ELSE vs[l]],
                   finds |-> <<location>>]
    ELSE [err |-> None, val |-> vs[location], views |-> vs, finds |-> <<>>]

\* The views that raise Http404 when they are called
RaisingViews == {Obj(3)}

\* view(request, target, *args, **kwargs): what the view returns is made of
\* all it was given
CallView(view, request, target, args, kwargs) ==
    IF view \in RaisingViews
    THEN [err |-> "Http404", val |-> <<>>]
    ELSE [err |-> None,
          val |-> <<[by |-> view, request |-> request, target |-> target,
                     args |-> args, kwargs |-> kwargs]>>]

\* Dispatcher.__call__ as a mutant: the keyword arguments are not passed on
callDropsKwargs(vs, mods, request, location, target, args, kwargs) ==
    LET got == get_view(vs, mods, location)
    IN  IF got.err # None
        THEN [err |-> got.err, val |-> <<>>, views |-> got.views,
              invoked |-> <<>>]
        ELSE LET r == CallView(got.val, request, target, args, <<>>)
             IN  [err |-> r.err, val |-> r.val, views |-> got.views,
                  invoked |-> <<[view |-> got.val, request |-> request,
                                 target |-> target, args |-> args,
                                 kwargs |-> <<>>]>>]

\* Dispatcher.__call__(request, location, target, *args, **kwargs): the view
\* of get_view(location) is called with (request, target, *args, **kwargs);
\* what it returns is returned and what it raises is raised. invoked lists
\* the calls of views.
call(vs, mods, request, location, target, args, kwargs) ==
    LET got == get_view(vs, mods, location)
    IN  IF got.err # None
        THEN [err |-> got.err, val |-> <<>>, views |-> got.views,
              invoked |-> <<>>]
        ELSE LET r == CallView(got.val, request, target, args, kwargs)
             IN  [err |-> r.err, val |-> r.val, views |-> got.views,
                  invoked |-> <<[view |-> got.val, request |-> request,
                                 target |-> target, args |-> args,
                                 kwargs |-> kwargs]>>]

\* The names of the modules and of their attributes
PkgMod == <<"a", ".", "b">>
Pkg == <<"a">>
AttrV == <<"V">>
AttrW == <<"W">>

\* The locations given to the dispatcher: dotted paths (of a view, of a view
\* that raises, of a module that does not exist, of no attribute), a path
\* without dot, and two callables
Locations ==
    {Str(<<"a", ".", "b", ".", "V">>), Str(<<"a", ".", "W">>),
     Str(<<"x", ".", "V">>), Str(<<"a", ".", "X">>), Str(<<"V">>),
     Obj(2), Obj(3)}

Requests == {"request"}
Targets == {"base", "edit"}
ArgLists == {<<>>, <<"arg1", "arg2">>}
KwargMaps == {<<>>, [kw1 |-> "kwa1", kw2 |-> "kwa2"]}

\* The objects a module attribute can be bound to
ViewObjects == {Obj(1), Obj(2)}

InitDispatch ==
    /\ sections = <<>>
    /\ opts = <<>>
    /\ vals = <<>>
    /\ ectx = <<>>
    /\ nbase = 0
    /\ cloned = <<>>
    /\ views = <<>>
    /\ modules = (PkgMod :> (AttrV :> Obj(1))) @@ (Pkg :> (AttrW :> Obj(3)))
    /\ firstGot = <<>>
    /\ menus = <<>>
    /\ ret = NoRet

\* firstGot after a call that made get_view return val for location
Remember(location, err, val) ==
    IF err = None /\ location \notin DOMAIN firstGot
    THEN [l \in DOMAIN firstGot \cup {location} |->
             IF l = location THEN val ELSE firstGot[l]]
    ELSE firstGot

\* A call of dispatcher.get_view(location)
GetView(location) ==
    /\ Idle
    /\ LET r == get_view(views, modules, location)
       IN  /\ views' = r.views
           /\ firstGot' = Remember(location, r.err, r.val)
           /\ ret' = [op |-> "get_view", location |-> location,
                      cached |-> location \in DOMAIN views,
                      err |-> r.err, val |-> r.val, finds |-> r.finds]
    /\ UNCHANGED <<menus, modules, opts, vals, ectx, cloned, treeVars>>

\* A call of dispatcher.find_view(location)
FindView(location) ==
    /\ Idle
    /\ LET r == find_view(modules, location)
       IN  ret' = [op |-> "find_view", location |-> location,
                   err |-> r.err, val |-> r.val, imports |-> r.imports]
    /\ UNCHANGED <<menus, dispatchVars, opts, vals, ectx, cloned, treeVars>>

\* A call of dispatcher(request, location, target, *args, **kwargs)
Call(request, location, target, args, kwargs) ==
    /\ Idle
    /\ LET r == call(views, modules, request, location, target, args, kwargs)
       IN  /\ views' = r.views
           /\ firstGot' = IF location \in DOMAIN r.views
                          THEN Remember(location, None, r.views[location])
                          ELSE firstGot
           /\ ret' = [op |-> "call", request |-> request,
                      location |-> location, target |-> target,
                      args |-> args, kwargs |-> kwargs,
                      err |-> r.err, val |-> r.val, invoked |-> r.invoked]
    /\ UNCHANGED <<menus, modules, opts, vals, ectx, cloned, treeVars>>

\* The attribute V of the module a.b is bound to another object
Rebind(view) ==
    /\ Idle
    /\ modules[PkgMod][AttrV] # view
    /\ modules' = [modules EXCEPT ![PkgMod][AttrV] = view]
    /\ UNCHANGED <<menus, views, firstGot, ret, opts, vals, ectx, cloned, treeVars>>

NextDispatch ==
    \/ \E location \in Locations : GetView(location)
    \/ \E location \in Locations : FindView(location)
    \/ \E request \in Requests, location \in Locations, target \in Targets,
          args \in ArgLists, kwargs \in KwargMaps :
            Call(request, location, target, args, kwargs)
    \/ \E view \in ViewObjects : Rebind(view)
    \/ Return

SpecDispatch == InitDispatch /\ [][NextDispatch]_vars

---------------------------------------------------------------------------
(* Dispatcher: the claims *)

\* C1: the first get_view(L) when L is not in the views cache calls
\* find_view(L) exactly once, stores views[L] = the returned view and
\* returns it; every later get_view(L) returns that identical view object
\* from the cache without calling find_view again, after any sequence of
\* get_view calls on other locations.
C1_GetViewMemoizes ==
    /\ ret.op = "get_view" =>
          IF ret.cached
          THEN /\ ret.finds = <<>>
               /\ ret.err = None
               /\ ret.val = firstGot[ret.location]
          ELSE /\ ret.finds = <<ret.location>>
               /\ ret.err = None =>
                     /\ ret.location \in DOMAIN views
                     /\ views[ret.location] = ret.val
    /\ \A l \in DOMAIN firstGot : l \in DOMAIN views /\ views[l] = firstGot[l]

\* get_view has returned the view of a dotted path from the cache, with
\* other locations in the cache, after the attribute of the module was
\* bound to another object
C1_Witness ==
    /\ ret.op = "get_view"
    /\ ret.cached
    /\ ret.location = Str(<<"a", ".", "b", ".", "V">>)
    /\ ret.val = Obj(1)
    /\ modules[PkgMod][AttrV] = Obj(2)
    /\ Cardinality(DOMAIN views) >= 3

\* The place of the last '.' of a str, 0 when it has none
LastDot(chars) ==
    IF \E k \in DOMAIN chars : chars[k] = "."
    THEN CHOOSE k \in DOMAIN chars :
            chars[k] = "." /\ \A j \in (k + 1)..Len(chars) : chars[j] # "."
    ELSE 0

\* C2: find_view(location) returns the location object itself, without
\* invoking the import mechanism, whenever location is not a string; when
\* location is a dotted string 'a.b.name' it imports module 'a.b' (with
\* from-list ['name']) and returns that module's attribute 'name'.
C2_FindView ==
    ret.op = "find_view" =>
        IF ret.location.t # "str"
        THEN /\ ret.err = None
             /\ ret.val = ret.location
             /\ ret.imports = <<>>
        ELSE LET chars == ret.location.s
                 dot == LastDot(chars)
                 module == SubSeq(chars, 1, dot - 1)
                 name == SubSeq(chars, dot + 1, Len(chars))
             IN  dot > 0 =>
                    /\ ret.imports = <<[name |-> module, fromlist |-> <<name>>]>>
                    /\ (module \in DOMAIN modules /\ name \in DOMAIN modules[module])
                          => (ret.err = None /\ ret.val = modules[module][name])

\* find_view has resolved 'a.b.V' by importing 'a.b' with from-list ['V']
C2_Witness ==
    /\ ret.op = "find_view"
    /\ ret.location = Str(<<"a", ".", "b", ".", "V">>)
    /\ ret.imports = <<[name |-> <<"a", ".", "b">>, fromlist |-> <<(<<"V">>)>>]>>
    /\ ret.err = None
    /\ ret.val = modules[PkgMod][AttrV]

\* C3: dispatcher(request, location, target, *args, **kwargs) resolves the
\* view with get_view(location), invokes it exactly once as
\* view(request, target, *args, **kwargs) with the positional and keyword
\* arguments unchanged and in order, and returns the view's result
\* unchanged; an exception raised by the view is not caught or translated.
C3_CallInvokesView ==
    (ret.op = "call" /\ ret.location \in DOMAIN views) =>
        LET view == views[ret.location]
        IN  /\ ret.invoked =
                  <<[view |-> view, request |-> ret.request,
                     target |-> ret.target, args |-> ret.args,
                     kwargs |-> ret.kwargs]>>
            /\ IF view \in RaisingViews
               THEN ret.err = "Http404"
               ELSE /\ ret.err = None
                    /\ ret.val = <<[by |-> view, request |-> ret.request,
                                    target |-> ret.target, args |-> ret.args,
                                    kwargs |-> ret.kwargs]>>

\* The dispatcher has called the view of a dotted path with two positional
\* and two keyword arguments and returned its result
C3_Witness ==
    /\ ret.op = "call"
    /\ ret.location = Str(<<"a", ".", "b", ".", "V">>)
    /\ ret.args = <<"arg1", "arg2">>
    /\ ret.kwargs = [kw1 |-> "kwa1", kw2 |-> "kwa2"]
    /\ ret.target = "edit"
    /\ ret.err = None
    /\ Len(ret.invoked) = 1
    /\ ret.val[1].by = views[ret.location]

---------------------------------------------------------------------------
(* Section.determineSelection *)

\* C4: determineSelection(path, parentSelected, url) returns (False, [])
\* whenever parentSelected is false or path is empty; otherwise it returns
\* (True, path[1:]) if path[0] equals the url (the section's own url when the
\* url argument is empty) and (False, []) if it does not.
C4_DetermineSelection ==
    ret.op = "determineSelection" =>
        LET u == IF ret.url \in {None, ""} THEN sections[ret.self].url
                 ELSE ret.url
        IN  /\ ret.err = None
            /\ IF ~ret.parentSelected \/ Len(ret.path) = 0
               THEN ret.val = <<PyBool(FALSE), PyList(<<>>)>>
               ELSE IF ret.path[1] = u
               THEN ret.val =
                        <<PyBool(TRUE), PyList(SubSeq(ret.path, 2, Len(ret.path)))>>
               ELSE ret.val = <<PyBool(FALSE), PyList(<<>>)>>

\* A call with a selected parent and a path of two elements whose first is
\* the section's own url, no url being given, has returned
C4_Witness ==
    /\ ret.op = "determineSelection"
    /\ ret.parentSelected
    /\ ret.url = None
    /\ Len(ret.path) = 2
    /\ ret.path[1] = sections[ret.self].url
    /\ ret.val = <<PyBool(TRUE), PyList(<<ret.path[2]>>)>>

---------------------------------------------------------------------------
(* Menu traversal *)

\* C5: in a menu traversal driven by getInfo, a section is reported selected
\* only if every section above it on the traversal path was reported
\* selected, the call on it was given a selected parent and the first
\* element of the path it was given is its url; so once a path element fails
\* to match, every section below is reported unselected.
C5_SelectionNeverResumes ==
    ret.op = "traverse" =>
        \A i \in DOMAIN ret.reps :
            LET r == ret.reps[i]
            IN  /\ Truthy(r.selected) =>
                    /\ \A k \in DOMAIN r.up : r.up[k]
                    /\ Truthy(r.inSelected)
                    /\ r.inPath.t = "list"
                    /\ r.inPath.l # <<>>
                    /\ r.inPath.l[1] = r.url
                /\ (\E k \in DOMAIN r.up : ~r.up[k]) => ~Truthy(r.selected)

\* A traversal whose first section did not match the first path element has
\* reported a child of it unselected, although the next path element is the
\* child's url
C5_Witness ==
    /\ ret.op = "traverse"
    /\ ret.parentSelected
    /\ Len(ret.path) = 2
    /\ Len(ret.reps) >= 2
    /\ ret.path[1] # ret.reps[1].url
    /\ ret.reps[2].up = <<FALSE>>
    /\ ret.reps[2].url = ret.path[2]
    /\ ~Truthy(ret.reps[2].selected)

---------------------------------------------------------------------------
(* Section.getPattern *)

\* The segment of a section: its url, as a named group when its options
\* name a match
Segment(n) ==
    LET match == Opt(Heap, n).match
        url == sections[n].url
    IN  IF match \notin {None, ""}
        THEN "(?P<" \o match \o ">" \o url \o ")"
        ELSE url

RECURSIVE SegmentsFromRoot(_)
\* The segments of the sections from the root down to n
SegmentsFromRoot(n) ==
    IF sections[n].parent = NoRef
    THEN <<Segment(n)>>
    ELSE SegmentsFromRoot(sections[n].parent) \o <<Segment(n)>>

\* C6: for every section c with a parent p, c.getPattern() is p.getPattern()
\* followed by exactly one element, '(?P<m>u)' when c.options.match is a name
\* m and c.url is u, and c.url otherwise; whatever calls of getPattern came
\* before, it is the list of the segments from the root down to c.
C6_PatternExtendsParent ==
    (ret.op = "getPattern" /\ sections[ret.self].parent # NoRef) =>
        /\ ret.val = getPattern(Heap, sections[ret.self].parent).val
                        \o <<Segment(ret.self)>>
        /\ ret.val = SegmentsFromRoot(ret.self)

\* getPattern has returned on a section two levels below the root that names
\* a match, after a call of base
C6_Witness ==
    /\ ret.op = "getPattern"
    /\ sections[ret.self].parent # NoRef
    /\ Opt(Heap, ret.self).match = "id"
    /\ Len(ret.val) = 3
    /\ nbase > 0

\* The tree root.add('products', name='products')
\*               .add('42', match='id', name='detail'), leaf being its leaf
IsProductDetail(leaf) ==
    /\ nbase = 0
    /\ sections[leaf].url = "42"
    /\ sections[leaf].name = "detail"
    /\ Opt(Heap, leaf).match = "id"
    /\ sections[leaf].parent # NoRef
    /\ LET mid == sections[leaf].parent
       IN  /\ sections[mid].url = "products"
           /\ sections[mid].name = "products"
           /\ sections[mid].parent # NoRef
           /\ sections[sections[mid].parent].parent = NoRef

\* C7 as stated: on that tree getPattern() on the leaf returns exactly the
\* two-element list ['products', '(?P<id>42)'].
C7_TwoElementPattern ==
    (ret.op = "getPattern" /\ IsProductDetail(ret.self)) =>
        ret.val = <<"products", "(?P<id>42)">>

\* C7 as amended: on that tree getPattern() on the leaf returns the
\* three-element list [root.url, 'products', '(?P<id>42)']: the url of the
\* root is its first element.
C7_PatternStartsWithRootUrl ==
    (ret.op = "getPattern" /\ IsProductDetail(ret.self)) =>
        ret.val = <<sections[sections[sections[ret.self].parent].parent].url,
                    "products", "(?P<id>42)">>

\* getPattern has returned on the leaf of that tree, under a root Section()
C7_Witness ==
    /\ ret.op = "getPattern"
    /\ IsProductDetail(ret.self)
    /\ sections[1].url = "/"
    /\ ret.val = <<"/", "products", "(?P<id>42)">>

---------------------------------------------------------------------------
(* Section.patternList *)

\* C10: two successive calls of patternList() on the same section of a tree
\* that is not changed in between complete and yield the same tuples in the
\* same order.
C10_PatternListRepeats ==
    ret.op = "patternList" =>
        /\ ret.one.err = None
        /\ ret.two.err = None
        /\ ret.one.out = ret.two.out

---------------------------------------------------------------------------
(* Options.clone *)

\* C8: o.clone(**kw) is a new Options object in which every field named in
\* kw equals the override and every other configuration field equals o's
\* current value of that field, also when o was changed with update().
C8_CloneCopiesFields ==
    ret.op = "clone" =>
        /\ ret.val # ret.self
        /\ ret.val = Len(opts)
        /\ \A f \in OptionArgs :
              opts[ret.val][f] = IF f \in DOMAIN ret.kwargs
                                 THEN ret.kwargs[f]
                                 ELSE opts[ret.self][f]

\* An Options object that update() had changed has been cloned with an
\* override of another field
C8_Witness ==
    /\ ret.op = "clone"
    /\ ret.kwargs = "match" :> "id"
    /\ ~opts[ret.self].active
    /\ opts[ret.self].match = None
    /\ ~opts[ret.val].active
    /\ opts[ret.val].match = "id"

\* What can be observed through the Options object o: its fields, and the
\* state of the Values object and of the mapping it refers to
Observable(o) ==
    [fields |-> opts[o],
     values |-> IF opts[o].values = NoRef THEN <<>>
                ELSE <<vals[opts[o].values]>>,
     extraContext |-> IF opts[o].extraContext = NoRef THEN <<>>
                      ELSE <<ectx[opts[o].extraContext]>>]

\* This step is the mutation named op, made through the Options object c
MutationThrough(c, op) ==
    /\ ret = NoRet
    /\ ret'.op = op
    /\ ret'.self = c

\* This step changes in place, through the Options object c, a Values object
\* or a mapping that c got from the object it is a clone of, without it
\* being passed to clone
MutationOfInherited(c) ==
    /\ cloned[c].of # NoRef
    /\ \/ /\ MutationThrough(c, "values.asSet")
          /\ "values" \notin cloned[c].kwargs
          /\ opts[c].values = cloned[c].values
       \/ /\ MutationThrough(c, "extraContext.setitem")
          /\ "extraContext" \notin cloned[c].kwargs
          /\ opts[c].extraContext = cloned[c].extraContext

RECURSIVE PatternsInOrder(_)
RECURSIVE PatternsOfChildren(_, _)
\* The tuples of section n when it is routable (showBase, or no children),
\* followed by those of each child, in the order of the children
PatternsInOrder(n) ==
    LET O == options(Heap, n)
        own == IF O.os[O.ref].showBase \/ sections[n].children = <<>>
               THEN SectionUrlPattern(Heap, ectx, n).out
               ELSE <<>>
    IN  own \o PatternsOfChildren(sections[n].children, 1)

PatternsOfChildren(children, i) ==
    IF i > Len(children) THEN <<>>
    ELSE PatternsInOrder(children[i]) \o PatternsOfChildren(children, i + 1)

\* C11: patternList() of a section completes; it first yields the section's
\* own pattern tuples if and only if its options.showBase is true or it has
\* no children, and then the complete patternList() of each child, in the
\* order of self.children.
C11_PatternListInOrder ==
    ret.op = "patternList" =>
        /\ ret.one.err = None
        /\ ret.one.out = PatternsInOrder(ret.self)

---------------------------------------------------------------------------
(* Sections that are not active, sections with values *)

\* C12: a section whose options.active is False contributes none of its own
\* entries to the url patterns (urlPattern yields nothing unless active and
\* exists are both true) and no info tuple to a menu traversal (getInfo
\* yields nothing unless active, exists and show() all hold).
C12_InactiveContributesNothing ==
    /\ ret.op = "urlPattern" =>
          (ret.out # <<>> =>
              Opt(Heap, ret.self).active /\ Opt(Heap, ret.self).exists)
    /\ ret.op = "patternList" =>
          ( ( /\ sections[ret.self]._options # NoRef
              /\ ~Opt(Heap, ret.self).active
              /\ sections[ret.self].children = <<>> )
            => (ret.one.out = <<>> /\ ret.two.out = <<>>) )
    /\ ret.op = "traverse" =>
          \A i \in DOMAIN ret.reps :
              LET n == ret.reps[i].node
              IN  /\ Opt(Heap, n).active
                  /\ Opt(Heap, n).exists
                  /\ show(Heap, n)

\* A menu traversal from an active root has reported the root and not its
\* child, which is not active
C12_Witness ==
    /\ ret.op = "traverse"
    /\ ret.err = None
    /\ Len(ret.reps) = 1
    /\ ret.reps[1].node = ret.self
    /\ sections[ret.self].children # <<>>
    /\ \A k \in DOMAIN sections[ret.self].children :
          LET c == sections[ret.self].children[k]
          IN  ~Opt(Heap, c).active /\ Opt(Heap, c).exists

\* The section made by root.add('item') whose options carry the Values object
IsItemWithValues(n) ==
    /\ sections[n].url = "item"
    /\ sections[n].parent # NoRef
    /\ sections[sections[n].parent].parent = NoRef
    /\ sections[n].children = <<>>
    /\ sections[n]._options # NoRef
    /\ Opt(Heap, n).values # NoRef
    /\ vals[Opt(Heap, n).values].values = <<1, 2, 3>>
    /\ Opt(Heap, n).active
    /\ Opt(Heap, n).exists

\* C13: the section made by root.add('item') whose options carry
\* Values(values=lambda path: [1,2,3], each=lambda path, v: (str(v), str(v)))
\* contributes three distinct url patterns to patternList(), one for each
\* enumerated value.
C13_ValuesExpandPatterns ==
    (ret.op = "patternList" /\ IsItemWithValues(ret.self)) =>
        /\ ret.one.err = None
        /\ Len(ret.one.out) = 3
        /\ \A i, j \in DOMAIN ret.one.out :
              i # j => ret.one.out[i].pattern # ret.one.out[j].pattern

---------------------------------------------------------------------------
(* Section.add and Section.first *)

\* The option values of section p, which are the defaults as long as no
\* Options object was made for it
OptionValues(p) ==
    IF sections[p]._options = NoRef THEN OptionDefaults
    ELSE opts[sections[p]._options]

\* This step is a call of op that returns or raises
CallOf(op) == ret = NoRet /\ ret'.op = op

\* C14: add(url, ...) with url == '' fails with ValueError and leaves the
\* section's children and options unchanged; with any other url it appends
\* exactly one new child at the end of children, with that url, the section
\* as parent and options cloned from the section with the given match, and
\* returns that child.
C14_AddAppendsChild ==
    [][CallOf("add") =>
        LET p == ret'.self
        IN  IF ret'.url = ""
            THEN /\ ret'.err = "ValueError"
                 /\ sections' = sections
                 /\ opts' = opts
            ELSE LET c == ret'.val
                 IN  /\ ret'.err = None
                     /\ c \notin DOMAIN sections
                     /\ DOMAIN sections' = DOMAIN sections \cup {c}
                     /\ sections'[p].children = Append(sections[p].children, c)
                     /\ \A n \in DOMAIN sections \ {p} :
                           sections'[n] = sections[n]
                     /\ sections'[c].url = ret'.url
                     /\ sections'[c].name = ret'.name
                     /\ sections'[c].parent = p
                     /\ sections'[c].children = <<>>
                     /\ sections'[c]._options # NoRef
                     /\ sections'[c]._options # sections'[p]._options
                     /\ opts'[sections'[p]._options] = OptionValues(p)
                     /\ \A f \in OptionArgs :
                           opts'[sections'[c]._options][f] =
                               IF f = "match" THEN ret'.match
                               ELSE OptionValues(p)[f]]_vars

\* add has appended a second child, with a match, to a section that base()
\* had changed
C14_Witness ==
    /\ ret.op = "add"
    /\ ret.err = None
    /\ ret.match = "id"
    /\ Len(sections[ret.self].children) = 2
    /\ sections[ret.self].children[2] = ret.val
    /\ Opt(Heap, ret.val).match = "id"
    /\ ~Opt(Heap, ret.self).showBase
    /\ ~Opt(Heap, ret.val).showBase

\* At most one child of p has the empty url, and it is children[0]
FirstSlot(p) ==
    \A k \in DOMAIN sections[p].children :
        sections[sections[p].children[k]].url = "" => k = 1

\* The children of p without the first section, if there is one
AddedChildren(p) ==
    LET children == sections[p].children
    IN  IF children # <<>> /\ sections[children[1]].url = ""
        THEN Tail(children)
        ELSE children

---------------------------------------------------------------------------
(* Section.show *)

RECURSIVE FromRoot(_)
\* The sections from the root down to n
FromRoot(n) ==
    IF sections[n].parent = NoRef THEN <<n>>
    ELSE Append(FromRoot(sections[n].parent), n)

\* options.show() of section a is false exactly when its condition, or what
\* its condition returns when it is callable, is truthy
OptionsShows(a) == Opt(Heap, a).condition.value = FALSE

\* C16: show() of a section is true if and only if options.show() is true
\* for the section and for every one of its ancestors; a callable condition
\* is called to get its value, and the condition of a section is not
\* evaluated when show() of an ancestor is false.
C16_ShowNeedsEveryAncestor ==
    ret.op = "show" =>
        LET chain == FromRoot(ret.self)
            AboveShow(k) == \A j \in 1..(k - 1) : OptionsShows(chain[j])
        IN  /\ ret.val = (\A k \in DOMAIN chain : OptionsShows(chain[k]))
            /\ \A k \in DOMAIN chain :
                  (\E i \in DOMAIN ret.called : ret.called[i] = chain[k])
                  <=> (AboveShow(k) /\ Opt(Heap, chain[k]).condition.callable)

\* show() of a section with a callable condition has returned False without
\* calling it, the condition of its parent being true
C16_Witness ==
    /\ ret.op = "show"
    /\ ~ret.val
    /\ sections[ret.self].parent # NoRef
    /\ Opt(Heap, ret.self).condition.callable
    /\ ~OptionsShows(sections[ret.self].parent)
    /\ \A i \in DOMAIN ret.called : ret.called[i] # ret.self

---------------------------------------------------------------------------
(* Options.urlPattern and Options.getObj *)

\* The places of s that are not a '/' right after a '/'
KeptPlaces(s) == {k \in DOMAIN s : ~(k > 1 /\ s[k] = "/" /\ s[k - 1] = "/")}

\* s with every run of consecutive '/' replaced by a single '/'
SingleSlashes(s) ==
    [i \in 1..Cardinality(KeptPlaces(s)) |->
        s[CHOOSE k \in KeptPlaces(s) :
              Cardinality({j \in KeptPlaces(s) : j <= k}) = i]]

\* C17: for an active and existing Options and a list of path segments, the
\* regex of the emitted tuple is the segments joined with '/', with every
\* run of consecutive '/' replaced by a single '/', anchored as
\* '^' + path + '$' when the path ends in '/' and as '^' + path + '/?$'
\* otherwise; it never contains two adjacent '/'.
C17_RegexOfSegments ==
    ( /\ ret.op = "options.urlPattern"
      /\ opts[ret.self].active
      /\ opts[ret.self].exists
      /\ ret.pattern.t = "list" ) =>
        LET path == SingleSlashes(Join(ret.pattern.l, "/"))
            regex == ret.out[1].pattern
        IN  /\ Len(ret.out) = 1
            /\ regex = IF path # <<>> /\ path[Len(path)] = "/"
                       THEN <<"^">> \o path \o <<"$">>
                       ELSE <<"^">> \o path \o <<"/", "?", "$">>
            /\ \A k \in 1..(Len(regex) - 1) :
                  ~(regex[k] = "/" /\ regex[k + 1] = "/")

\* The regex of the segments 'a/', '' and '/a', which join to 'a///a', has
\* been emitted
C17_Witness ==
    /\ ret.op = "options.urlPattern"
    /\ ret.pattern = PyList(<<(<<"a", "/">>), <<>>, <<"/", "a">>>>)
    /\ Len(ret.out) = 1
    /\ ret.out[1].pattern = <<"^", "a", "/", "a", "/", "?", "$">>

\* The redirect of an Options object, called first when it is callable, is
\* a str that is not empty
RedirectIsSet(o) ==
    o.redirect.value.t = "str" /\ o.redirect.value.s # <<>>

\* The tuple t is the one that urlPattern is to emit for the Options object
\* i: the redirect-view tuple, the tuple of the target that is a function,
\* or the dispatch-view tuple
TupleOfOneKind(i, t) ==
    LET o == opts[i]
    IN  IF RedirectIsSet(o)
        THEN /\ t.view = redirect_to
             /\ t.kwargs = Kwargs("url" :> o.redirect.value)
        ELSE IF o.target.t = "function"
        THEN t.view = o.target
        ELSE /\ t.view = dispatch
             /\ ~t.kwargs.none
             /\ {"obj", "target", "section", "condition"}
                   \subseteq DOMAIN t.kwargs.d
             /\ t.kwargs.d["obj"] = getObj(o).val
             /\ t.kwargs.d["target"] = o.target
             /\ o.extraContext # NoRef =>
                   \A kv \in ectx[o.extraContext] :
                       /\ kv[1] \in DOMAIN t.kwargs.d
                       /\ t.kwargs.d[kv[1]] = Str(<<kv[2]>>)

\* C18 as stated: urlPattern emits at most one tuple, and for an active,
\* existing Options exactly one, of exactly one kind: the redirect-view
\* tuple when the redirect is set, otherwise the tuple of the target that is
\* a plain function, otherwise the dispatch-view tuple.
C18_ExactlyOneTuple ==
    ret.op = "options.urlPattern" =>
        /\ Len(ret.out) <= 1
        /\ (opts[ret.self].active /\ opts[ret.self].exists) =>
              /\ Len(ret.out) = 1
              /\ TupleOfOneKind(ret.self, ret.out[1])

\* C18 as amended: urlPattern emits at most one tuple; for an active,
\* existing Options it emits exactly one, of exactly one kind as above,
\* unless the dispatch-view tuple is to be made and getObj raises (module is
\* an object that lacks an attribute that kls names): then the
\* AttributeError ends the generator and nothing is emitted. A set redirect
\* str and a target that is a function never reach getObj.
C18_OneTupleUnlessUnresolved ==
    ret.op = "options.urlPattern" =>
        LET o == opts[ret.self]
        IN  /\ Len(ret.out) <= 1
            /\ (o.active /\ o.exists) =>
                  IF ret.err = None
                  THEN /\ Len(ret.out) = 1
                       /\ TupleOfOneKind(ret.self, ret.out[1])
                  ELSE /\ ret.err = "AttributeError"
                       /\ ret.out = <<>>
                       /\ ~RedirectIsSet(o)
                       /\ o.target.t # "function"
                       /\ o.kls.t \in {"none", "str"}
                       /\ o.module.t \notin {"none", "str"}
            /\ (o.active /\ o.exists /\ ret.err # None) <=>
                  ( /\ o.active /\ o.exists
                    /\ ~RedirectIsSet(o)
                    /\ o.target.t # "function"
                    /\ getObj(o).err # None )

\* The redirect-view tuple has been emitted for an Options object whose
\* target is a function and whose module lacks what kls names
C18_Witness ==
    /\ ret.op = "options.urlPattern"
    /\ RedirectIsSet(opts[ret.self])
    /\ opts[ret.self].redirect.callable
    /\ opts[ret.self].target.t = "function"
    /\ getObj(opts[ret.self]).err # None
    /\ Len(ret.out) = 1
    /\ ret.out[1].view = redirect_to

\* s without one '.' at its beginning and without one '.' at its end
StripDots(s) ==
    LET a == IF s # <<>> /\ s[1] = "." THEN SubSeq(s, 2, Len(s)) ELSE s
    IN  IF a # <<>> /\ a[Len(a)] = "." THEN SubSeq(a, 1, Len(a) - 1) ELSE a

\* C19: getObj returns kls as it is when kls is an object; None when kls and
\* module are both empty; kls without one leading and one trailing '.' when
\* module is None; and, when module and kls are both strs, the dotted path
\* module + '.' + kls in which kls has lost its leading and trailing '.'.
C19_GetObjStripsDots ==
    ret.op = "getObj" =>
        LET o == opts[ret.self]
        IN  IF o.kls.t \notin {"none", "str"}
            THEN ret.err = None /\ ret.val = o.kls
            ELSE IF o.module.t = "none"
            THEN /\ ret.err = None
                 /\ ret.val = IF StripDots(o.kls.s) = <<>> THEN NoneObj
                              ELSE Str(StripDots(o.kls.s))
            ELSE (o.module.t = "str" /\ o.kls.t = "str") =>
                    /\ ret.err = None
                    /\ ret.val = Str(o.module.s \o <<".">> \o StripDots(o.kls.s))

---------------------------------------------------------------------------
(* Section.getInfo and the lists of its caller *)

\* The tuples that the two calls of getInfo have yielded
YieldedTuples == {ret.one.out[k] : k \in DOMAIN ret.one.out}
                    \cup {ret.two.out[k] : k \in DOMAIN ret.two.out}

\* C20: getInfo never changes the parentUrl list or the path list of its
\* caller: fullUrl of every yielded tuple is a new list, equal to parentUrl
\* (or the empty list) followed by the tuple's url when that is not empty,
\* and the fullUrl lists of two yielded tuples are not the same list.
C20_FullUrlIsFresh ==
    ret.op = "getInfo" =>
        /\ \A k \in DOMAIN ret.before : ret.lists[k] = ret.before[k]
        /\ \A t \in YieldedTuples :
              /\ t.fullUrl \notin DOMAIN ret.before
              /\ ret.lists[t.fullUrl] =
                    ret.parentUrl.l
                        \o (IF t.url # "" THEN <<t.url>> ELSE <<>>)
        /\ \A i \in DOMAIN ret.one.out, j \in DOMAIN ret.two.out :
              ret.one.out[i].fullUrl # ret.two.out[j].fullUrl

\* Two calls given the same list ['/'] as parentUrl have each yielded a tuple
\* whose url is not empty
C20_Witness ==
    /\ ret.op = "getInfo"
    /\ ret.parentUrl = [has |-> TRUE, l |-> <<"/">>]
    /\ Len(ret.one.out) = 1
    /\ Len(ret.two.out) = 1
    /\ ret.one.out[1].url = "item"
    /\ ret.two.out[1].url = "item"
    /\ ret.lists[ret.one.out[1].fullUrl] = <<"/", "item">>
    /\ ret.lists[2] = <<"/">>

---------------------------------------------------------------------------
(* Menu *)

\* A section but for its Options object, which is made when first read
WithoutOptions(s) == [s EXCEPT !._options = NoRef]

\* C21: getGlobal stores the selection of its request in the attribute
\* selected of the sections of the site (true iff the section is the menu's
\* selectedSection), so walks of two menus with different selected sections
\* that interleave over the same site reach a state in which the attribute
\* of a section disagrees with the selection of a menu that is still
\* iterating; the hierarchical and the layered walk write nothing but the
\* lazily made Options object on a section.
C21_GetGlobalWritesSections ==
    [][/\ (CallOf("getGlobal.next") /\ ~ret'.stop) =>
            LET s == ret'.section
                menu == menus[ret'.menu]
            IN  /\ s = menu.site[menu.walk.pos + 1]
                /\ sections'[s].selected = Flag(s = menu.selectedSection)
                /\ \A n \in DOMAIN sections \ {s} : sections'[n] = sections[n]
       /\ (CallOf("heirarchial") \/ CallOf("layered")) =>
            \A n \in DOMAIN sections :
                WithoutOptions(sections'[n]) = WithoutOptions(sections[n])]_vars

\* The menu m is between two sections of its walk, and the attribute
\* selected of a section it has gone through is not what it had set
Disagrees(m) ==
    /\ menus[m].walk.on
    /\ menus[m].walk.pos < Len(menus[m].site)
    /\ \E k \in 1..menus[m].walk.pos :
          LET s == menus[m].site[k]
          IN  sections[s].selected # Flag(s = menus[m].selectedSection)

\* The walk of one menu has set selected on a section that the walk of the
\* other menu, which is still iterating, had set otherwise
C21_Witness ==
    /\ ret.op = "getGlobal.next"
    /\ ~ret.stop
    /\ \E m \in DOMAIN menus :
          /\ m # ret.menu
          /\ menus[m].selectedSection # menus[ret.menu].selectedSection
          /\ Disagrees(m)

\* The option showBase of the section n, whose Options object is made from
\* the defaults when it is first read
ShowsBase(n) ==
    \/ sections[n]._options = NoRef
    \/ opts[sections[n]._options].showBase

\* The section with showBase yields its own tuple
C22_BaseYieldsItself ==
    (ret.op = "heirarchial" /\ ShowsBase(ret.section)) =>
        /\ ret.err = None
        /\ Len(ret.out) = 1
        /\ ret.out[1].url = sections[ret.section].url
        /\ ret.out[1].fullUrl = <<sections[ret.section].url>>

\* C22: the hierarchical walk of a section with showBase yields the section's
\* own info tuples; of a section without showBase it yields no tuple for the
\* section but the info tuples of each of its children, in order, the
\* fullUrl of a child being the accumulated list, then the url of the
\* skipped section if it is not empty, then the url of the child.
C22_SkippedSectionYieldsChildren ==
    /\ C22_BaseYieldsItself
    /\ (/\ ret.op = "heirarchial"
        /\ ~ShowsBase(ret.section)
        /\ \A k \in DOMAIN sections[ret.section].children :
              ShowsBase(sections[ret.section].children[k])) =>
          LET self == sections[ret.section]
              skipped == IF TruthyStr(self.url) THEN <<self.url>> ELSE <<>>
          IN  /\ ret.err = None
              /\ Len(ret.out) = Len(self.children)
              /\ \A k \in DOMAIN self.children :
                    /\ ret.out[k].url = sections[self.children[k]].url
                    /\ ret.out[k].fullUrl =
                          skipped \o <<sections[self.children[k]].url>>

\* C23: the layered walk ends without an exception, having yielded one
\* layer for each depth along the selected path: at least the layer of the
\* section it starts from, which holds that section's tuple when the section
\* has showBase, and no more layers than the tree has sections on a path.
C23_LayersAlongSelectedPath ==
    ret.op = "layered" =>
        /\ ret.err = None
        /\ Len(ret.layers) \in 1..Len(sections)
        /\ ShowsBase(ret.selected) =>
              \E k \in DOMAIN ret.layers[1] :
                  ret.layers[1][k].url = sections[ret.selected].url

---------------------------------------------------------------------------
(* The tree of sections *)

\* The option values of section n after the step
OptionValuesAfter(n) ==
    IF sections'[n]._options = NoRef THEN OptionDefaults
    ELSE opts'[sections'[n]._options]

\* C24: a child made by add() or first() starts with the option values its
\* parent has at that moment, but for match, which is the match of the call;
\* these calls change the option values of no section there was. A later
\* base() changes the option values of the section it is called on only:
\* those of its children, of its parent and of every other section stay.
C24_OptionsAreSnapshot ==
    [][/\ ((CallOf("add") /\ ret'.err = None) \/ CallOf("first")) =>
            /\ \A f \in OptionArgs :
                  OptionValuesAfter(ret'.val)[f] =
                      IF f = "match" THEN ret'.match
                      ELSE OptionValues(ret'.self)[f]
            /\ \A n \in DOMAIN sections :
                  OptionValuesAfter(n) = OptionValues(n)
       /\ CallOf("base") =>
            /\ \A n \in DOMAIN sections \ {ret'.self} :
                  /\ OptionValuesAfter(n) = OptionValues(n)
                  /\ sections'[n] = sections[n]
            /\ \E kw \in BaseKwargs :
                  \A f \in OptionArgs :
                      OptionValuesAfter(ret'.self)[f] =
                          IF f \in DOMAIN kw THEN kw[f]
                          ELSE OptionValues(ret'.self)[f]]_vars

\* base() has changed a section that had a child already: the child has
\* kept the values it was made with
C24_Witness ==
    /\ ret.op = "base"
    /\ sections[ret.self].children # <<>>
    /\ OptionValues(ret.self).match = "id"
    /\ ~OptionValues(ret.self).showBase
    /\ \A k \in DOMAIN sections[ret.self].children :
          LET c == sections[ret.self].children[k]
          IN  /\ OptionValues(c).showBase
              /\ OptionValues(c).match = None

\* The root of the tree: the section that was constructed first, on which
\* and on whose descendants the calls are made
Root == CHOOSE n \in DOMAIN sections : \A m \in DOMAIN sections : n <= m

RECURSIVE Up(_, _)
\* The section k parent links above n, None from the root on
Up(n, k) ==
    IF k = 0 \/ n = NoRef THEN n ELSE Up(sections[n].parent, k - 1)

RECURSIVE Within(_)
\* The sections at most k children links below the root
Within(k) ==
    IF k = 0 THEN {Root}
    ELSE Within(k - 1) \cup
         UNION {{sections[p].children[j] : j \in DOMAIN sections[p].children} :
                   p \in Within(k - 1)}

\* The sections that can be reached from the root through children
Reachable == Within(Len(sections))

\* C25: the parent of the root is None; a section that is in a children list
\* has as parent the section of that list, and is in no other list and not
\* twice in that one; the parent links have no cycle, so rootAncestor() ends
\* and returns the root; iterating the root yields every section that can be
\* reached exactly once, a parent before its children.
C25_TreeIsWellFormed ==
    /\ sections[Root].parent = NoRef
    /\ \A p \in DOMAIN sections : \A k \in DOMAIN sections[p].children :
          LET c == sections[p].children[k]
          IN  /\ sections[c].parent = p
              /\ \A q \in DOMAIN sections : \A j \in DOMAIN sections[q].children :
                    sections[q].children[j] = c => (q = p /\ j = k)
    /\ \A n \in DOMAIN sections : Up(n, Len(sections)) = NoRef
    /\ ret.op = "rootAncestor" => ret.val = Root
    /\ (ret.op = "iter" /\ ret.self = Root) =>
          /\ {ret.out[i] : i \in DOMAIN ret.out} = Reachable
          /\ Len(ret.out) = Cardinality(Reachable)
          /\ ret.out[1] = Root
          /\ \A j \in DOMAIN ret.out :
                ret.out[j] # Root =>
                    \E i \in 1..(j - 1) : ret.out[i] = sections[ret.out[j]].parent

\* The root was iterated when it had a child with a child of its own
C25_Witness ==
    /\ ret.op = "iter"
    /\ ret.self = Root
    /\ Len(ret.out) = 3
    /\ sections[ret.out[3]].parent = ret.out[2]

===========================================================================
